---------------------------- MODULE Spec2Model ----------------------------
(***************************************************************************)
(* A model of faapi, a client that recovers data from rendered markup:     *)
(* the identifier parser, the rate-limited transport, the lazily cached    *)
(* record fields, the subtree processor with its handlers, and the domain  *)
(* operations built on them.                                               *)
(*                                                                         *)
(* Go strings are TLA+ strings; a character is a string of length one.     *)
(* An int64 is written as its canonical decimal string ("0", "42", "-5",   *)
(* "9223372036854775807"), which keeps the full 64-bit range.              *)
(***************************************************************************)
EXTENDS Integers, Sequences, FiniteSets, TLC

VARIABLES
    \* parseSubmissionID
    idAttr,         \* the string handed to parseSubmissionID
    parsedID,       \* what it returned (NotParsed before the call)
    \* Client.rateLimiter, a time.Ticker, and the clock
    phase,          \* time since the ticker last fired, 0..RateLimit-1
    tickPending,    \* the ticker's channel (capacity one) holds a tick
    closed,         \* Close() has stopped the ticker
    sinceDispatch,  \* time since the last HTTP dispatch, saturating at RateLimit
    lastGap,        \* sinceDispatch as it was when the latest dispatch happened
    \* goroutines calling Client.doRaw
    gpc,            \* where each goroutine is in doRaw
    gres,           \* what doRaw last returned to each goroutine
    \* subtreeProcessor.processNode
    tree,           \* the root node handed to processNode
    handlers,       \* the processor's tagHandlers
    walk,           \* the handlers' state after the walk (NotWalked before it)
    \* operations on records: lazy accessors and domain operations
    inst,           \* the record instance the lazy accessors are called on
    cpc,            \* where each goroutine is in the operation it called
    cret,           \* what the operation last returned to each goroutine
    cacheLog,       \* the values assigned to the instance's cache field, in order
    \* the text normalisation of journalContentHandler and statsHandler
    textIn,         \* the text the normalisation is first applied to
    normalized      \* the results of applying it, and applying it again

varsParse == <<idAttr, parsedID>>
varsGate == <<phase, tickPending, closed, sinceDispatch, lastGap>>
varsCallers == <<gpc, gres>>
varsWalk == <<tree, handlers, walk>>
varsCalls == <<inst, cpc, cret, cacheLog>>
varsText == <<textIn, normalized>>
vars == <<idAttr, parsedID, phase, tickPending, closed, sinceDispatch, lastGap,
          gpc, gres, tree, handlers, walk, inst, cpc, cret, cacheLog,
          textIn, normalized>>

(***************************************************************************)
(* Bounds of the model.                                                    *)
(***************************************************************************)
MaxDigits == 3
\* children of the gallery section of a page
MaxItems == 2
\* goroutines sharing one Client
NumCallers == 2
\* Config.RateLimit, in clock steps
RateLimit == 3
\* the page numbers asked for run from 0 to MaxPage
MaxPage == 1
\* the longest text that is normalised
MaxText == 4

(***************************************************************************)
(* Strings                                                                 *)
(***************************************************************************)
CharAt(s, i) == SubSeq(s, i, i)

HasPrefix(s, p) == Len(s) >= Len(p) /\ SubSeq(s, 1, Len(p)) = p

\* The least index at which sub occurs in s, 0 when it does not occur.
Index(s, sub) ==
    LET hits == {i \in 1..(Len(s) - Len(sub) + 1) : SubSeq(s, i, i + Len(sub) - 1) = sub}
    IN  IF Len(sub) > Len(s) \/ hits = {} THEN 0
        ELSE CHOOSE i \in hits : \A j \in hits : i <= j

\* strings.Replace(s, old, new, 1) for a non-empty old.
ReplaceFirst(s, old, new) ==
    LET i == Index(s, old)
    IN  IF i = 0 THEN s
        ELSE SubSeq(s, 1, i - 1) \o new \o SubSeq(s, i + Len(old), Len(s))

\* strings.ReplaceAll(s, old, new) for a non-empty old: the occurrences are
\* found left to right, each search starting after the previous occurrence.
RECURSIVE ReplaceAll(_, _, _)
ReplaceAll(s, old, new) ==
    LET i == Index(s, old)
    IN  IF i = 0 THEN s
        ELSE SubSeq(s, 1, i - 1) \o new \o ReplaceAll(SubSeq(s, i + Len(old), Len(s)), old, new)

Digits == {"0", "1", "2", "3", "4", "5", "6", "7", "8", "9"}

DigitVal(c) ==
    CASE c = "0" -> 0 [] c = "1" -> 1 [] c = "2" -> 2 [] c = "3" -> 3
      [] c = "4" -> 4 [] c = "5" -> 5 [] c = "6" -> 6 [] c = "7" -> 7
      [] c = "8" -> 8 [] c = "9" -> 9

AllDigits(s) == \A i \in 1..Len(s) : CharAt(s, i) \in Digits

\* strconv.Itoa and %d, for n >= 0
RECURSIVE Itoa(_)
Itoa(n) ==
    IF n < 10 THEN CharAt("0123456789", n + 1)
    ELSE Itoa(n \div 10) \o CharAt("0123456789", (n % 10) + 1)

(***************************************************************************)
(* strconv.ParseInt(s, 10, 64), on canonical decimal strings.              *)
(***************************************************************************)
MaxInt64 == "9223372036854775807"
MinInt64 == "-9223372036854775808"
\* 1 << 63, the magnitude at which a non-negative value no longer fits
Cutoff64 == "9223372036854775808"
\* 1<<64 - 1
MaxUint64 == "18446744073709551615"

\* a < b for canonical magnitudes (no leading zeros)
MagLess(a, b) ==
    LET RECURSIVE LexLess(_, _)
        LexLess(x, y) ==
            IF x = "" THEN FALSE
            ELSE IF DigitVal(Head(x)) # DigitVal(Head(y))
                 THEN DigitVal(Head(x)) < DigitVal(Head(y))
                 ELSE LexLess(Tail(x), Tail(y))
    IN  \/ Len(a) < Len(b)
        \/ Len(a) = Len(b) /\ LexLess(a, b)

\* ParseUint: the digit loop computes n*10 + d, and gives a range error once
\* the value no longer fits 64 bits.
ParseUint(s) ==
    LET RECURSIVE Loop(_, _)
        Loop(t, n) ==
            IF t = "" THEN [val |-> n, err |-> "nil"]
            ELSE LET n1 == IF n = "0" THEN Head(t) ELSE n \o Head(t)
                 IN  IF MagLess(MaxUint64, n1)
                     THEN [val |-> MaxUint64, err |-> "range"]
                     ELSE Loop(Tail(t), n1)
    IN  IF s = "" \/ ~AllDigits(s)
        THEN [val |-> "0", err |-> "syntax"]
        ELSE Loop(s, "0")

ParseInt(s) ==
    LET signed(neg, un) ==
            IF un.err = "syntax" THEN [val |-> "0", err |-> "syntax"]
            ELSE IF un.err = "range"
                 THEN [val |-> IF neg THEN MinInt64 ELSE MaxInt64, err |-> "range"]
            ELSE IF ~neg /\ ~MagLess(un.val, Cutoff64)
                 THEN [val |-> MaxInt64, err |-> "range"]
            ELSE IF neg /\ MagLess(Cutoff64, un.val)
                 THEN [val |-> MinInt64, err |-> "range"]
            ELSE [val |-> IF neg /\ un.val # "0" THEN "-" \o un.val ELSE un.val,
                  err |-> "nil"]
    IN  IF s = "" THEN [val |-> "0", err |-> "syntax"]
        ELSE signed(Head(s) = "-", ParseUint(IF Head(s) \in {"+", "-"} THEN Tail(s) ELSE s))

(***************************************************************************)
(* parseSubmissionID: the error is logged, the value is returned either    *)
(* way.                                                                    *)
(***************************************************************************)
parseSubmissionID_keepPrefix(str) == ParseInt(str).val

parseSubmissionID_replaceAll(str) == ParseInt(ReplaceAll(str, "sid-", "")).val

parseSubmissionID(str) == ParseInt(ReplaceFirst(str, "sid-", "")).val

(***************************************************************************)
(* html.Node: a node is a record of its type, its data (the tag name of an *)
(* element, the text of a text node), its attributes in order and its      *)
(* children in order (FirstChild is the first, NextSibling the next).      *)
(***************************************************************************)
El(tag, attrs, kids) ==
    [Type |-> "ElementNode", Data |-> tag, Attr |-> attrs, Kids |-> kids]

Tx(text) ==
    [Type |-> "TextNode", Data |-> text, Attr |-> <<>>, Kids |-> <<>>]

At(key, val) == [Key |-> key, Val |-> val]

HasFirstChild(n) == Len(n.Kids) > 0

FirstChild(n) == n.Kids[1]

findAttribute(attrs, name) ==
    LET hits == {i \in 1..Len(attrs) : attrs[i].Key = name}
    IN  IF hits = {} THEN ""
        ELSE attrs[CHOOSE i \in hits : \A j \in hits : i <= j].Val

checkNodeTagNameAndID(n, name, id) ==
    n.Type = "ElementNode" /\ n.Data = name /\ findAttribute(n.Attr, "id") = id

Contains(s, sub) == Index(s, sub) # 0 \/ sub = ""

checkNodeTagNameAndClass(n, name, class) ==
    LET c == findAttribute(n.Attr, "class")
    IN  n.Type = "ElementNode" /\ n.Data = name /\ Contains(c, class)

\* the node found, or Nil
Nil == [Type |-> "nil"]

findChild(n, tag, i) ==
    LET hits == {k \in 1..Len(n.Kids) : n.Kids[k].Data = tag}
        \* the hits below position k
        before(k) == Cardinality({j \in hits : j < k})
        at == {k \in hits : before(k) = i}
    IN  IF at = {} THEN Nil ELSE n.Kids[CHOOSE k \in at : TRUE]

\* strings.Trim(s, cutset)
RECURSIVE TrimLeft(_, _)
TrimLeft(s, cutset) ==
    IF s # "" /\ Head(s) \in cutset THEN TrimLeft(Tail(s), cutset) ELSE s

RECURSIVE TrimRight(_, _)
TrimRight(s, cutset) ==
    IF s # "" /\ CharAt(s, Len(s)) \in cutset
    THEN TrimRight(SubSeq(s, 1, Len(s) - 1), cutset)
    ELSE s

Trim(s, cutset) == TrimRight(TrimLeft(s, cutset), cutset)

\* U+00A0, the non-breaking space, written as a character of its own
NBSP == " "

\* the cutset " \t  \r\n"
SpaceCutset == {" ", "\t", NBSP, "\r", "\n"}

RECURSIVE getText(_)
RECURSIVE getTextFrom(_, _, _)
getTextFrom(kids, k, s) ==
    IF k > Len(kids) THEN s
    ELSE LET t  == kids[k]
             s1 == IF t.Type = "TextNode"
                   THEN s \o Trim(t.Data, SpaceCutset) \o "\n"
                   ELSE s
             s2 == IF HasFirstChild(t) THEN s1 \o getText(t) \o "\n" ELSE s1
         IN  getTextFrom(kids, k + 1, s2)

getText(n) == Trim(getTextFrom(n.Kids, 1, ""), SpaceCutset)

(***************************************************************************)
(* The handlers.  A handler is a record naming its kind and its            *)
(* configuration; its accumulator state is a record of its own, created    *)
(* with the handler.                                                       *)
(***************************************************************************)
\* journalRegexp: ^/journal/(\d+)/$ ; the digits captured, or "" without a match
JournalRegexpID(href) ==
    LET mid == SubSeq(href, 10, Len(href) - 1)
    IN  IF /\ HasPrefix(href, "/journal/")
           /\ Len(href) >= 11
           /\ CharAt(href, Len(href)) = "/"
           /\ AllDigits(mid)
        THEN mid
        ELSE ""

\* strings.Split(s, sep) for a one-character sep
RECURSIVE Split(_, _)
Split(s, sep) ==
    LET i == Index(s, sep)
    IN  IF i = 0 THEN <<s>>
        ELSE <<SubSeq(s, 1, i - 1)>> \o Split(SubSeq(s, i + 1, Len(s)), sep)

\* the last index at which sub occurs in s, 0 when it does not occur
LastIndex(s, sub) ==
    LET hits == {i \in 1..(Len(s) - Len(sub) + 1) : SubSeq(s, i, i + Len(sub) - 1) = sub}
    IN  IF Len(sub) > Len(s) \/ hits = {} THEN 0
        ELSE CHOOSE i \in hits : \A j \in hits : i >= j

\* submissionDataRegexp and galleryDataRegexp, `var <name> = (.*}});` :
\* FindStringSubmatch on s.  The match is the leftmost one; `.` does not match
\* a newline and `.*` is greedy, so the group runs to the last "}}" of the
\* line that is followed by ";".
RECURSIVE dataRegexp(_, _)
dataRegexp(name, s) ==
    LET prefix == "var " \o name \o " = "
        i == Index(s, prefix)
        rest == SubSeq(s, i + Len(prefix), Len(s))
        nl == Index(rest, "\n")
        line == IF nl = 0 THEN rest ELSE SubSeq(rest, 1, nl - 1)
        k == LastIndex(line, "}};")
    IN  IF i = 0 THEN [match |-> FALSE, group |-> ""]
        ELSE IF k # 0 THEN [match |-> TRUE, group |-> SubSeq(line, 1, k + 1)]
        ELSE dataRegexp(name, SubSeq(s, i + 1, Len(s)))

(***************************************************************************)
(* encoding/json, on the texts a page can carry in its script: objects,    *)
(* strings without escapes, unsigned integers and null, with white space   *)
(* between the tokens.  A value is a record of its type and content.       *)
(***************************************************************************)
JSONSpace == {" ", "\t", "\r", "\n"}

\* the scanner: the value at the head of s and what follows it, or no value
RECURSIVE scanValue(_)
RECURSIVE scanMembers(_, _)
scanString(s) ==
    LET body == Tail(s)
        i == Index(body, "\"")
    IN  IF i = 0 \/ Contains(SubSeq(body, 1, i), "\\") \/ Contains(SubSeq(body, 1, i), "\n")
        THEN [ok |-> FALSE]
        ELSE [ok |-> TRUE, v |-> [t |-> "string", s |-> SubSeq(body, 1, i - 1)],
              rest |-> SubSeq(body, i + 1, Len(body))]

scanNumber(s) ==
    LET nondigit == {i \in 1..Len(s) : CharAt(s, i) \notin Digits}
        n == IF nondigit = {} THEN Len(s)
             ELSE (CHOOSE i \in nondigit : \A j \in nondigit : i <= j) - 1
    IN  IF n > 1 /\ Head(s) = "0" THEN [ok |-> FALSE]
        ELSE [ok |-> TRUE, v |-> [t |-> "number", s |-> SubSeq(s, 1, n)],
              rest |-> SubSeq(s, n + 1, Len(s))]

\* the members of an object after "{" or ","; acc holds those before
scanMembers(s, acc) ==
    LET more(next, all) ==
            IF next = "" THEN [ok |-> FALSE]
            ELSE IF Head(next) = ","
            THEN scanMembers(TrimLeft(Tail(next), JSONSpace), all)
            ELSE IF Head(next) = "}"
            THEN [ok |-> TRUE, v |-> [t |-> "object", m |-> all], rest |-> Tail(next)]
            ELSE [ok |-> FALSE]
        valued(key, val) ==
            IF val.ok THEN more(TrimLeft(val.rest, JSONSpace), Append(acc, <<key.v.s, val.v>>))
            ELSE [ok |-> FALSE]
        keyed(key, colon) ==
            IF colon # "" /\ Head(colon) = ":" THEN valued(key, scanValue(Tail(colon)))
            ELSE [ok |-> FALSE]
        member(key) ==
            IF key.ok THEN keyed(key, TrimLeft(key.rest, JSONSpace)) ELSE [ok |-> FALSE]
    IN  IF s = "" THEN [ok |-> FALSE]
        ELSE IF acc = <<>> /\ Head(s) = "}"
        THEN [ok |-> TRUE, v |-> [t |-> "object", m |-> <<>>], rest |-> Tail(s)]
        ELSE IF Head(s) # "\"" THEN [ok |-> FALSE]
        ELSE member(scanString(s))

scanValue(s0) ==
    LET s == TrimLeft(s0, JSONSpace)
    IN  IF s = "" THEN [ok |-> FALSE]
        ELSE IF Head(s) = "{" THEN scanMembers(TrimLeft(Tail(s), JSONSpace), <<>>)
        ELSE IF Head(s) = "\"" THEN scanString(s)
        ELSE IF Head(s) \in Digits THEN scanNumber(s)
        ELSE IF HasPrefix(s, "null")
        THEN [ok |-> TRUE, v |-> [t |-> "null"], rest |-> SubSeq(s, 5, Len(s))]
        ELSE [ok |-> FALSE]

\* the ASCII case folding by which a key is matched to a struct field
ToLower(s) ==
    LET upper == "ABCDEFGHIJKLMNOPQRSTUVWXYZ"
        lower == "abcdefghijklmnopqrstuvwxyz"
        low(c) == IF Index(upper, c) = 0 THEN c ELSE CharAt(lower, Index(upper, c))
        RECURSIVE go(_)
        go(t) == IF t = "" THEN "" ELSE low(Head(t)) \o go(Tail(t))
    IN  go(s)

\* faSubmission, and the struct field a JSON key is stored in
ZeroFaSubmission == [Rating |-> "", Title |-> "", User |-> ""]

\* a JSON value decoded into a faSubmission: strings are stored in the field
\* their key names, null and unknown keys change nothing, any other value is
\* a type error that leaves the field as it was
RECURSIVE decodeFaSubmission(_, _, _)
decodeFaSubmission(m, k, acc) ==
    LET field(key, val) ==
            [v |-> IF val.t # "string" THEN acc.v
                   ELSE IF key = "icon_rating" THEN [acc.v EXCEPT !.Rating = val.s]
                   ELSE IF key = "title" THEN [acc.v EXCEPT !.Title = val.s]
                   ELSE IF key = "username" THEN [acc.v EXCEPT !.User = val.s]
                   ELSE acc.v,
             typeErr |-> \/ acc.typeErr
                         \/ /\ key \in {"icon_rating", "title", "username"}
                            /\ val.t \notin {"string", "null"}]
    IN  IF k > Len(m) THEN acc
        ELSE decodeFaSubmission(m, k + 1, field(ToLower(m[k][1]), m[k][2]))

\* an object decoded into a map[int64]faSubmission: a key that is no int64
\* is a type error and its entry is left out
RECURSIVE decodeMap(_, _, _)
decodeMap(m, k, acc) ==
    LET entry(key, el) ==
            [data |-> IF key.err # "nil" THEN acc.data
                      ELSE [x \in DOMAIN acc.data \cup {key.val} |->
                                IF x = key.val THEN el.v ELSE acc.data[x]],
             typeErr |-> acc.typeErr \/ el.typeErr \/ key.err # "nil"]
        element(val) ==
            IF val.t = "object"
            THEN decodeFaSubmission(val.m, 1, [v |-> ZeroFaSubmission, typeErr |-> FALSE])
            ELSE [v |-> ZeroFaSubmission, typeErr |-> val.t # "null"]
    IN  IF k > Len(m) THEN acc
        ELSE decodeMap(m, k + 1, entry(ParseInt(m[k][1]), element(m[k][2])))

\* the map without entries
NoData == [x \in {} |-> ZeroFaSubmission]

\* json.Unmarshal([]byte(raw), &data) on an empty map: the text is checked as
\* a whole first, and nothing is stored when it is not valid JSON
Unmarshal(raw) ==
    LET decoded(d) == [data |-> d.data, err |-> IF d.typeErr THEN "type" ELSE "nil"]
        scanned(r) ==
            IF ~r.ok \/ TrimLeft(r.rest, JSONSpace) # "" THEN [data |-> NoData, err |-> "syntax"]
            ELSE IF r.v.t = "null" THEN [data |-> NoData, err |-> "nil"]
            ELSE IF r.v.t # "object" THEN [data |-> NoData, err |-> "type"]
            ELSE decoded(decodeMap(r.v.m, 1, [data |-> NoData, typeErr |-> FALSE]))
    IN  scanned(scanValue(raw))

\* data[id] of a Go map: the zero value for a key that is absent
MapGet(data, id) == IF id \in DOMAIN data THEN data[id] ELSE ZeroFaSubmission

H(kind) == [kind |-> kind]

SectionH(sectionID) == [kind |-> "submissionSection", sectionID |-> sectionID]

\* a scriptHandler for the variable its regexp names
ScriptH(name) == [kind |-> "script", name |-> name]

\* a handler as it is constructed
InitH(h) ==
    CASE h.kind = "myUsername"              -> [username |-> ""]
      [] h.kind = "script"                  -> [data |-> NoData]
      [] h.kind = "submissionSection"       -> [subs |-> <<>>]
      [] h.kind = "submission"              -> [subs |-> <<>>]
      [] h.kind = "submissionImage"         -> [url |-> ""]
      [] h.kind = "journal"                 -> [js |-> <<>>]
      [] h.kind = "download"                -> [url |-> ""]
      [] h.kind = "description"             -> [text |-> ""]
      [] h.kind = "stats"                   -> [stats |-> ""]
      [] h.kind = "journalContent"          -> [text |-> ""]
      [] h.kind = "journalDate"             -> [text |-> ""]
      [] h.kind = "searchResults"           -> [results |-> <<>>]
      [] h.kind = "searchResultsSection"    -> [results |-> <<>>]
      [] h.kind = "searchSubmission"        -> [title |-> "", user |-> ""]
      [] h.kind = "searchSubmissionPreview" -> [url |-> ""]
      [] h.kind = "searchSubmissionCaption" -> [title |-> "", user |-> ""]

InitHs(hl) == [i \in 1..Len(hl) |-> InitH(hl[i])]

journalHandler_matches_anyText(n) ==
    /\ n.Type = "ElementNode" /\ n.Data = "a"
    /\ JournalRegexpID(findAttribute(n.Attr, "href")) # ""
    /\ HasFirstChild(n)
    /\ FirstChild(n).Type = "TextNode"

\* journalHandler.matches: an anchor to a journal whose first child is a text
\* node that is not the text of a comments link or of a "Read more..." link
journalHandler_matches(n) ==
    /\ n.Type = "ElementNode" /\ n.Data = "a"
    /\ JournalRegexpID(findAttribute(n.Attr, "href")) # ""
    /\ HasFirstChild(n)
    /\ FirstChild(n).Type = "TextNode"
    /\ ~HasPrefix(FirstChild(n).Data, "Comments ")
    /\ FirstChild(n).Data # "Read more..."

\* h.matches(n), by the handler's dynamic type
Matches(h, n) ==
    CASE h.kind = "myUsername" ->
            checkNodeTagNameAndID(n, "a", "my-username") /\ HasFirstChild(n)
      [] h.kind = "submissionSection" -> checkNodeTagNameAndID(n, "section", h.sectionID)
      [] h.kind = "script" ->
            /\ n.Type = "ElementNode" /\ n.Data = "script"
            /\ HasFirstChild(n)
            /\ dataRegexp(h.name, FirstChild(n).Data).match
      [] h.kind \in {"submission", "searchResultsSection"} ->
            n.Type = "ElementNode" /\ n.Data = "figure"
      [] h.kind \in {"submissionImage", "searchSubmissionPreview"} ->
            n.Type = "ElementNode" /\ n.Data = "img"
      [] h.kind = "journal" -> journalHandler_matches(n)
      [] h.kind = "download" ->
            /\ n.Type = "ElementNode" /\ n.Data = "a"
            /\ HasFirstChild(n)
            /\ FirstChild(n).Type = "TextNode"
            /\ FirstChild(n).Data = "Download"
      [] h.kind = "description" -> checkNodeTagNameAndID(n, "div", "page-submission")
      [] h.kind = "stats" -> checkNodeTagNameAndClass(n, "td", "stats-container")
      [] h.kind = "journalContent" -> checkNodeTagNameAndClass(n, "div", "journal-body")
      [] h.kind = "journalDate" -> checkNodeTagNameAndClass(n, "span", "popup_date")
      [] h.kind = "searchResults" ->
            checkNodeTagNameAndID(n, "section", "gallery-search-results")
      [] h.kind = "searchSubmission" -> n.Type = "ElementNode" /\ n.Data = "figcaption"
      [] h.kind = "searchSubmissionCaption" -> n.Type = "ElementNode" /\ n.Data = "a"

\* The text normalisation of journalContentHandler.process and
\* statsHandler.process.
NormalizeText(t) ==
    LET s1 == ReplaceAll(t, "  ", " ")
        s2 == ReplaceAll(s1, NBSP, " ")
        s3 == ReplaceAll(s2, "\t", " ")
    IN  Trim(s3, SpaceCutset)

\* descriptionHandler.process: the fixed path of (tag, index) steps below
\* div#page-submission
DescriptionPath ==
    << <<"table", 0>>, <<"tbody", 0>>, <<"tr", 0>>, <<"td", 0>>,
       <<"table", 0>>, <<"tbody", 0>>, <<"tr", 1>>, <<"td", 0>>,
       <<"table", 0>>, <<"tbody", 0>>, <<"tr", 1>>, <<"td", 0>> >>

\* the node the steps from step k on lead to from n, Nil when a step fails
RECURSIVE FollowPath(_, _, _)
FollowPath(n, steps, k) ==
    IF k > Len(steps) THEN n
    ELSE LET c == findChild(n, steps[k][1], steps[k][2])
         IN  IF c = Nil THEN Nil ELSE FollowPath(c, steps, k + 1)

\* the first class token that starts with r-, "" when there is none
RECURSIVE FirstRatingClass(_, _)
FirstRatingClass(classes, i) ==
    IF i > Len(classes) THEN ""
    ELSE IF HasPrefix(classes[i], "r-") THEN classes[i]
    ELSE FirstRatingClass(classes, i + 1)

\* An entry of the walk's record of calls: the processor (the chain of
\* handlers that started it), the node (its path from the root), and the
\* call: a visit by processNode, a call of matches with its result, a call of
\* process with its result (entered when process returns).
Ev(e, proc, path, i, r) == [e |-> e, proc |-> proc, node |-> path, h |-> i, r |-> r]

(***************************************************************************)
(* subtreeProcessor.processNode.  The state threaded through a walk is the *)
(* state of the processor's handlers, the record of calls made so far, and *)
(* whether a handler has panicked.                                         *)
(***************************************************************************)
RECURSIVE processNode(_, _, _, _, _)
RECURSIVE processChildren(_, _, _, _, _, _)
RECURSIVE handlerLoop(_, _, _, _, _, _)
RECURSIVE Process(_, _, _, _, _, _)

\* a fresh processor over hl, run on n
Nested(hl, n, path, proc, log) ==
    processNode(hl, n, path, proc, [hs |-> InitHs(hl), log |-> log, panic |-> FALSE])

\* What h.process(n) hands back: the handler's new state, whether to recurse
\* into the children, the record of calls (nested processors add to it), and
\* whether it panicked.
Done(newH, rec, log) == [h |-> newH, log |-> log, recurse |-> rec, panic |-> FALSE]

\* the same after a nested processor in has run
AfterNested(in, newH, rec) ==
    [h |-> newH, log |-> in.log, recurse |-> rec, panic |-> in.panic]

myUsernameHandler_process_first(n, path, proc, hst, log) ==
    Done(IF hst.username # "" THEN hst ELSE [username |-> FirstChild(n).Data], FALSE, log)

myUsernameHandler_process(n, path, proc, hst, log) ==
    Done([username |-> FirstChild(n).Data], FALSE, log)

scriptHandler_process_stripped(h, n, path, proc, hst, log) ==
    LET raw == dataRegexp(h.name, FirstChild(n).Data).group
        data == Unmarshal(raw).data
    IN  Done([data |-> [id \in DOMAIN data |->
                           [data[id] EXCEPT !.Rating = ReplaceFirst(@, "r-", "")]]],
             FALSE, log)

scriptHandler_process_strict(h, n, path, proc, hst, log) ==
    LET res == Unmarshal(dataRegexp(h.name, FirstChild(n).Data).group)
    IN  [Done([data |-> res.data], FALSE, log) EXCEPT !.panic = res.err # "nil"]

scriptHandler_process(h, n, path, proc, hst, log) ==
    LET raw == dataRegexp(h.name, FirstChild(n).Data).group
    IN  Done([data |-> Unmarshal(raw).data], FALSE, log)

submissionSectionHandler_process(n, path, proc, hst, log) ==
    LET in == Nested(<<H("submission")>>, n, path, Append(proc, <<path, "submissionSection">>), log)
    IN  AfterNested(in, [subs |-> in.hs[1].subs], FALSE)

submissionHandler_process_recurse(n, path, proc, hst, log) ==
    LET in == Nested(<<H("submissionImage")>>, n, path, Append(proc, <<path, "submission">>), log)
        class == findAttribute(n.Attr, "class")
        rec == [c |-> TRUE,
                ID |-> parseSubmissionID(findAttribute(n.Attr, "id")),
                Rating |-> ReplaceFirst(Split(class, " ")[1], "r-", ""),
                PreviewURL |-> in.hs[1].url,
                Title |-> "", User |-> ""]
    IN  AfterNested(in, [subs |-> Append(hst.subs, rec)], TRUE)

submissionHandler_process(n, path, proc, hst, log) ==
    LET in == Nested(<<H("submissionImage")>>, n, path, Append(proc, <<path, "submission">>), log)
        class == findAttribute(n.Attr, "class")
        rec == [c |-> TRUE,
                ID |-> parseSubmissionID(findAttribute(n.Attr, "id")),
                Rating |-> ReplaceFirst(Split(class, " ")[1], "r-", ""),
                PreviewURL |-> in.hs[1].url,
                Title |-> "", User |-> ""]
    IN  AfterNested(in, [subs |-> Append(hst.subs, rec)], FALSE)

submissionImageHandler_process(n, path, proc, hst, log) ==
    Done([url |-> "https:" \o findAttribute(n.Attr, "src")], FALSE, log)

journalHandler_process(n, path, proc, hst, log) ==
    LET id == JournalRegexpID(findAttribute(n.Attr, "href"))
        rec == [c |-> FALSE, ID |-> parseSubmissionID(id),
                Title |-> FirstChild(n).Data, User |-> ""]
    IN  Done([js |-> Append(hst.js, rec)], FALSE, log)

downloadHandler_process(n, path, proc, hst, log) ==
    Done([url |-> findAttribute(n.Attr, "href")], FALSE, log)

\* a handler that would record whatever text lies below the div
descriptionHandler_process_anyText(n, path, proc, hst, log) ==
    Done([text |-> getText(n)], TRUE, log)

descriptionHandler_process(n, path, proc, hst, log) ==
    LET leaf == FollowPath(n, DescriptionPath, 1)
    IN  IF leaf = Nil THEN Done(hst, FALSE, log)
        ELSE Done([text |-> getText(leaf)], TRUE, log)

statsHandler_process(n, path, proc, hst, log) ==
    Done([stats |-> NormalizeText(getText(n))], TRUE, log)

journalContentHandler_process(n, path, proc, hst, log) ==
    Done([text |-> NormalizeText(getText(n))], TRUE, log)

\* n.FirstChild.Data: a nil pointer dereference when the span has no child
journalDateHandler_process(n, path, proc, hst, log) ==
    IF HasFirstChild(n) THEN Done([text |-> FirstChild(n).Data], TRUE, log)
    ELSE [h |-> hst, log |-> log, recurse |-> FALSE, panic |-> TRUE]

searchResultsHandler_process(n, path, proc, hst, log) ==
    LET in == Nested(<<H("searchResultsSection")>>, n, path,
                     Append(proc, <<path, "searchResults">>), log)
    IN  AfterNested(in, [results |-> in.hs[1].results], FALSE)

searchResultsSectionHandler_process(n, path, proc, hst, log) ==
    LET classes == Split(findAttribute(n.Attr, "class"), " ")
        rating == FirstRatingClass(classes, 1)
        in == Nested(<<H("searchSubmission"), H("searchSubmissionPreview")>>, n, path,
                     Append(proc, <<path, "searchResultsSection">>), log)
        rec == [c |-> FALSE,
                ID |-> parseSubmissionID(findAttribute(n.Attr, "id")),
                Rating |-> ReplaceFirst(rating, "r-", ""),
                PreviewURL |-> in.hs[2].url,
                Title |-> in.hs[1].title, User |-> in.hs[1].user]
    IN  AfterNested(in, [results |-> Append(hst.results, rec)], FALSE)

searchSubmissionHandler_process(n, path, proc, hst, log) ==
    LET in == Nested(<<H("searchSubmissionCaption")>>, n, path,
                     Append(proc, <<path, "searchSubmission">>), log)
    IN  AfterNested(in, [title |-> in.hs[1].title, user |-> in.hs[1].user], FALSE)

searchSubmissionPreviewHandler_process(n, path, proc, hst, log) ==
    Done([url |-> "https:" \o findAttribute(n.Attr, "src")], FALSE, log)

searchSubmissionCaptionHandler_process(n, path, proc, hst, log) ==
    LET href == findAttribute(n.Attr, "href")
        val == findAttribute(n.Attr, "title")
    IN  IF HasPrefix(href, "/view/") THEN Done([hst EXCEPT !.title = val], FALSE, log)
        ELSE IF HasPrefix(href, "/user/") THEN Done([hst EXCEPT !.user = val], FALSE, log)
        ELSE Done(hst, FALSE, log)

\* h.process(n), by the handler's dynamic type
Process(h, n, path, proc, hst, log) ==
    CASE h.kind = "myUsername" -> myUsernameHandler_process(n, path, proc, hst, log)
      [] h.kind = "script" -> scriptHandler_process(h, n, path, proc, hst, log)
      [] h.kind = "submissionSection" -> submissionSectionHandler_process(n, path, proc, hst, log)
      [] h.kind = "submission" -> submissionHandler_process(n, path, proc, hst, log)
      [] h.kind = "submissionImage" -> submissionImageHandler_process(n, path, proc, hst, log)
      [] h.kind = "journal" -> journalHandler_process(n, path, proc, hst, log)
      [] h.kind = "download" -> downloadHandler_process(n, path, proc, hst, log)
      [] h.kind = "description" -> descriptionHandler_process(n, path, proc, hst, log)
      [] h.kind = "stats" -> statsHandler_process(n, path, proc, hst, log)
      [] h.kind = "journalContent" -> journalContentHandler_process(n, path, proc, hst, log)
      [] h.kind = "journalDate" -> journalDateHandler_process(n, path, proc, hst, log)
      [] h.kind = "searchResults" -> searchResultsHandler_process(n, path, proc, hst, log)
      [] h.kind = "searchResultsSection" ->
            searchResultsSectionHandler_process(n, path, proc, hst, log)
      [] h.kind = "searchSubmission" -> searchSubmissionHandler_process(n, path, proc, hst, log)
      [] h.kind = "searchSubmissionPreview" ->
            searchSubmissionPreviewHandler_process(n, path, proc, hst, log)
      [] h.kind = "searchSubmissionCaption" ->
            searchSubmissionCaptionHandler_process(n, path, proc, hst, log)

\* The loop over rp.tagHandlers from handler i on: the walk's state after it
\* and whether processNode goes on to the children (break) or returns.
handlerLoop_noBreak(hl, i, n, path, proc, st) ==
    IF i > Len(hl) THEN [st |-> st, descend |-> TRUE]
    ELSE LET m == Matches(hl[i], n)
             st1 == [st EXCEPT !.log = Append(@, Ev("matches", proc, path, i, m))]
         IN  IF ~m THEN handlerLoop(hl, i + 1, n, path, proc, st1)
             ELSE LET r == Process(hl[i], n, path, proc, st1.hs[i], st1.log)
                      st2 == [hs |-> [st1.hs EXCEPT ![i] = r.h],
                              log |-> Append(r.log, Ev("process", proc, path, i, r.recurse)),
                              panic |-> r.panic]
                  IN  IF r.panic \/ ~r.recurse
                      THEN [st |-> st2, descend |-> FALSE]
                      ELSE handlerLoop(hl, i + 1, n, path, proc, st2)

handlerLoop_alwaysDescend(hl, i, n, path, proc, st) ==
    IF i > Len(hl) THEN [st |-> st, descend |-> TRUE]
    ELSE LET m == Matches(hl[i], n)
             st1 == [st EXCEPT !.log = Append(@, Ev("matches", proc, path, i, m))]
         IN  IF ~m THEN handlerLoop(hl, i + 1, n, path, proc, st1)
             ELSE LET r == Process(hl[i], n, path, proc, st1.hs[i], st1.log)
                      st2 == [hs |-> [st1.hs EXCEPT ![i] = r.h],
                              log |-> Append(r.log, Ev("process", proc, path, i, r.recurse)),
                              panic |-> r.panic]
                  IN  [st |-> st2, descend |-> ~r.panic]

handlerLoop(hl, i, n, path, proc, st) ==
    LET result(r, hs) ==
            [st |-> [hs |-> [hs EXCEPT ![i] = r.h],
                     log |-> Append(r.log, Ev("process", proc, path, i, r.recurse)),
                     panic |-> r.panic],
             descend |-> ~r.panic /\ r.recurse]
        step(m, st1) ==
            IF ~m THEN handlerLoop(hl, i + 1, n, path, proc, st1)
            ELSE result(Process(hl[i], n, path, proc, st1.hs[i], st1.log), st1.hs)
        logged(m) == step(m, [st EXCEPT !.log = Append(@, Ev("matches", proc, path, i, m))])
    IN  IF i > Len(hl) THEN [st |-> st, descend |-> TRUE]
        ELSE logged(Matches(hl[i], n))

\* for c := n.FirstChild; c != nil; c = c.NextSibling { rp.processNode(c) }
processChildren(hl, n, k, path, proc, st) ==
    IF k > Len(n.Kids) \/ st.panic THEN st
    ELSE processChildren(hl, n, k + 1, path, proc,
                         processNode(hl, n.Kids[k], Append(path, k), proc, st))

processNode(hl, n, path, proc, st) ==
    LET children(r) == IF r.descend THEN processChildren(hl, n, 1, path, proc, r.st) ELSE r.st
    IN  children(handlerLoop(hl, 1, n, path, proc,
                             [st EXCEPT !.log = Append(@, Ev("visit", proc, path, 0, FALSE))]))

\* p.processNode(root) on a processor constructed over hl
RunProcessor(hl, root) ==
    processNode(hl, root, <<>>, <<>>, [hs |-> InitHs(hl), log |-> <<>>, panic |-> FALSE])

(***************************************************************************)
(* The state in which a part of the program is not running.                *)
(***************************************************************************)
NotParsed == "not parsed"

\* parseSubmissionID is not being run
IdleParse ==
    /\ idAttr = ""
    /\ parsedID = NotParsed

\* no text is being normalised
IdleText ==
    /\ textIn = ""
    /\ normalized = <<>>

\* New: the ticker is started, nothing has been sent yet.
IdleGate ==
    /\ phase = 0
    /\ tickPending = FALSE
    /\ closed = FALSE
    /\ sinceDispatch = RateLimit
    /\ lastGap = RateLimit

Callers == 1..NumCallers

IdleCallers ==
    /\ gpc = [g \in Callers |-> "idle"]
    /\ gres = [g \in Callers |-> [res |-> "none", err |-> "none"]]

NotWalked == [hs |-> <<>>, log |-> <<>>, panic |-> FALSE]

IdleWalk ==
    /\ tree = Nil
    /\ handlers = <<>>
    /\ walk = NotWalked

\* a cache field that is nil
NoCache == [set |-> FALSE, val |-> ""]

NoResponse == [err |-> "none", status |-> 0, ctype |-> "", body |-> ""]

\* the zero values an operation returns beside an error
NoValue ==
    [str |-> "", subs |-> <<>>, journs |-> <<>>,
     details |-> [set |-> FALSE, DownloadURL |-> "", Description |-> "", Stats |-> ""]]

\* a goroutine that is in no operation.  began is the cache field as it was
\* when the latest operation was entered, sent the requests that operation
\* has dispatched.
IdleCaller ==
    [at |-> "idle", op |-> [name |-> "none", st |-> "", page |-> 0], step |-> "",
     req |-> [method |-> "", url |-> "", body |-> ""], began |-> NoCache, sent |-> <<>>]

\* nothing returned yet; resp is the last response the operation received
Pending == [resp |-> NoResponse, v |-> NoValue, err |-> "pending"]

IdleCalls ==
    /\ inst = [kind |-> "none", url |-> "", ID |-> "0", cache |-> NoCache]
    /\ cpc = [g \in Callers |-> IdleCaller]
    /\ cret = [g \in Callers |-> Pending]
    /\ cacheLog = <<>>

(***************************************************************************)
(* The transport's gate: a time.Ticker of period RateLimit whose channel   *)
(* holds at most one tick; a tick that fires while one is pending is       *)
(* dropped.                                                                *)
(***************************************************************************)
\* a receive that would leave the tick in the channel
GatePass_keepTick ==
    /\ tickPending
    /\ lastGap' = sinceDispatch
    /\ sinceDispatch' = 0
    /\ UNCHANGED <<tickPending, phase, closed>>

\* <-c.rateLimiter.C followed by c.http.Do(req): the receive takes the pending
\* tick and the request is dispatched at once.
GatePass ==
    /\ tickPending
    /\ tickPending' = FALSE
    /\ lastGap' = sinceDispatch
    /\ sinceDispatch' = 0
    /\ UNCHANGED <<phase, closed>>

(***************************************************************************)
(* Client.doRaw, called by several goroutines.                             *)
(***************************************************************************)
\* what c.http.Do can come back with for a request: a connection error, or a
\* response with a status, a content type and one of the bodies
Responses(bodies) ==
    {[err |-> "connection", status |-> 0, ctype |-> "", body |-> ""]} \cup
    {[err |-> "nil", status |-> st, ctype |-> ct, body |-> b] :
        st \in {200, 404}, ct \in {"text/html; charset=utf-8", "image/jpeg"}, b \in bodies}

doRawResult_anyStatus(o) ==
    IF o.err # "nil" THEN [res |-> "nil", err |-> o.err]
    ELSE [res |-> "response", err |-> "nil"]

\* doRaw's return value for an outcome of c.http.Do
doRawResult(o) ==
    IF o.err # "nil" THEN [res |-> "nil", err |-> o.err]
    ELSE IF o.status # 200
         THEN [res |-> "nil", err |-> "HTTP response " \o Itoa(o.status) \o " not expected"]
    ELSE [res |-> "response", err |-> "nil"]

InitGate ==
    /\ IdleParse
    /\ IdleText
    /\ IdleGate
    /\ IdleCallers
    /\ IdleWalk
    /\ IdleCalls

\* a goroutine enters doRaw and blocks on the ticker's channel
DoRawCall(g) ==
    /\ gpc[g] = "idle"
    /\ gpc' = [gpc EXCEPT ![g] = "gate"]
    /\ UNCHANGED <<gres, varsGate, varsParse, varsText, varsWalk, varsCalls>>

\* it receives a tick and dispatches the request
DoRawDispatch(g) ==
    /\ gpc[g] = "gate"
    /\ GatePass
    /\ gpc' = [gpc EXCEPT ![g] = "inflight"]
    /\ UNCHANGED <<gres, varsParse, varsText, varsWalk, varsCalls>>

\* a transport that would put a failed request back at the gate
DoRawReturn_retry(g) ==
    /\ gpc[g] = "inflight"
    /\ \E o \in Responses({""}) :
        /\ gres' = [gres EXCEPT ![g] = doRawResult(o)]
        /\ gpc' = [gpc EXCEPT ![g] = IF doRawResult(o).err = "nil" THEN "idle" ELSE "gate"]
    /\ UNCHANGED <<varsGate, varsParse, varsText, varsWalk, varsCalls>>

\* c.http.Do returns and doRaw classifies the outcome
DoRawReturn(g) ==
    /\ gpc[g] = "inflight"
    /\ \E o \in Responses({""}) : gres' = [gres EXCEPT ![g] = doRawResult(o)]
    /\ gpc' = [gpc EXCEPT ![g] = "idle"]
    /\ UNCHANGED <<varsGate, varsParse, varsText, varsWalk, varsCalls>>

\* a ticker that would never send a tick
TimePasses_noTick ==
    /\ phase' = (phase + 1) % RateLimit
    /\ sinceDispatch' = IF sinceDispatch < RateLimit THEN sinceDispatch + 1 ELSE RateLimit
    /\ UNCHANGED <<tickPending, closed, lastGap>>
    /\ UNCHANGED <<varsCallers, varsParse, varsText, varsWalk, varsCalls>>

\* a ticker that would go on sending ticks after Stop
TimePasses_ignoreStop ==
    /\ phase' = (phase + 1) % RateLimit
    /\ tickPending' = IF phase' = 0 THEN TRUE ELSE tickPending
    /\ sinceDispatch' = IF sinceDispatch < RateLimit THEN sinceDispatch + 1 ELSE RateLimit
    /\ UNCHANGED <<closed, lastGap>>
    /\ UNCHANGED <<varsCallers, varsParse, varsText, varsWalk, varsCalls>>

\* One unit of time passes; every RateLimit units a running ticker sends a tick.
TimePasses ==
    /\ phase' = (phase + 1) % RateLimit
    /\ tickPending' = IF phase' = 0 /\ ~closed THEN TRUE ELSE tickPending
    /\ sinceDispatch' = IF sinceDispatch < RateLimit THEN sinceDispatch + 1 ELSE RateLimit
    /\ UNCHANGED <<closed, lastGap>>
    /\ UNCHANGED <<varsCallers, varsParse, varsText, varsWalk, varsCalls>>

\* Client.Close
Close ==
    /\ ~closed
    /\ closed' = TRUE
    /\ UNCHANGED <<phase, tickPending, sinceDispatch, lastGap>>
    /\ UNCHANGED <<varsCallers, varsParse, varsText, varsWalk, varsCalls>>

NextGate ==
    \/ TimePasses
    \/ Close
    \/ \E g \in Callers : DoRawCall(g)
    \/ \E g \in Callers : DoRawDispatch(g)
    \/ \E g \in Callers : DoRawReturn(g)

SpecGate == InitGate /\ [][NextGate]_vars

\* The same with the scheduling the runtime gives: the clock advances; a
\* goroutine blocked on the ticker's channel is queued and handed a tick
\* before the ticks run out on it (it is not passed over forever); and
\* c.http.Do comes back, the http.Client having a Timeout.
FairGate ==
    /\ SpecGate
    /\ WF_vars(TimePasses)
    /\ \A g \in Callers : SF_vars(DoRawDispatch(g)) /\ WF_vars(DoRawReturn(g))

\* C1 as stated: any two HTTP dispatches performed by doRaw, from any callers
\* sharing the Client, are separated by at least the rate-limit interval.
C1_Spacing == lastGap >= RateLimit

(***************************************************************************)
(* The pages and processors the walk is run on.                            *)
(***************************************************************************)
RecentSectionID == "gallery-latest-submissions"

Img(src) == El("img", <<At("src", src)>>, <<>>)

Figure(id, class, kids) == El("figure", <<At("id", id), At("class", class)>>, kids)

Div(kids) == El("div", <<>>, kids)

Section(id, kids) == El("section", <<At("class", "gallery"), At("id", id)>>, kids)

\* a page with one gallery section, at the top or below other elements.  The
\* section holds up to MaxItems of: figures with and without an image, a
\* figure in a wrapper, a figure inside a figure, text.
GalleryPages ==
    LET items == { Figure("sid-4", "r-general t-image", <<Img("//x/a.jpg")>>),
                   Figure("sid-9", "r-adult", <<>>),
                   Div(<<Figure("sid-40", "r-mature", <<El("b", <<>>, <<Img("//x/b.jpg")>>)>>)>>),
                   Figure("sid-44", "r-general",
                          << Img("//x/c.jpg"),
                             Figure("sid-49", "r-adult", <<Img("//x/d.jpg")>>) >>),
                   Tx("gallery") }
        RECURSIVE SeqsUpTo(_)
        SeqsUpTo(n) ==
            IF n = 0 THEN {<<>>}
            ELSE LET shorter == SeqsUpTo(n - 1)
                 IN  shorter \cup {Append(q, x) : q \in shorter, x \in items}
        secs == {Section(RecentSectionID, ks) : ks \in SeqsUpTo(MaxItems)}
    IN  {El("html", <<>>, <<sec>>) : sec \in secs}
        \cup {El("html", <<>>,
                 << Figure("sid-0", "r-general", <<>>),
                    Div(<<sec, Section("gallery-other", <<Figure("sid-90", "", <<>>)>>)>>) >>)
              : sec \in secs}

\* pages on which several handlers of a processor match one node, and on
\* which handlers that return true have children
MixedPages ==
    \* an anchor that is at once the username anchor, a journal link and the
    \* download link
    LET AnchorAll == El("a", <<At("id", "my-username"), At("href", "/journal/4/")>>,
                        <<Tx("Download")>>)
    IN  { El("html", <<>>, <<AnchorAll, Div(<<AnchorAll>>)>>),
          El("html", <<>>,
             << El("div", <<At("id", "page-submission"), At("class", "journal-body")>>,
                   << Tx(" a  b "),
                      AnchorAll,
                      El("span", <<At("class", "popup_date")>>, <<Tx("May 1st")>>) >>),
                El("a", <<At("href", "/journal/9/")>>, <<Tx("Read more...")>>) >>),
          El("html", <<>>,
             << El("table", <<>>,
                   << El("td", <<At("class", "alt1 stats-container")>>,
                         << Tx("Views: 4"),
                            El("span", <<At("class", "popup_date")>>, <<>>) >>) >>),
                Figure("sid-4", "r-general", <<El("figcaption", <<>>, <<AnchorAll>>)>>) >>),
          El("html", <<>>,
             << El("td", <<At("class", "stats-container")>>,
                   << El("div", <<At("class", "journal-body")>>,
                         <<El("img", <<>>, <<>>), Tx("x")>>) >>) >>) }

\* processors: those the operations construct, and lists in which one node
\* is matched by several handlers
WalkHandlers ==
    { <<SectionH(RecentSectionID)>>,
      <<SectionH(RecentSectionID), H("journal")>>,
      <<H("download"), H("description"), H("stats")>>,
      <<H("journalContent"), H("journalDate")>>,
      <<H("download"), H("journalContent"), H("journalDate")>>,
      <<H("myUsername")>>,
      <<H("journal"), H("myUsername"), H("download")>>,
      <<H("stats"), H("journalContent"), H("description"), H("journalContent")>>,
      <<H("journalDate"), H("submissionImage"), H("searchSubmissionPreview")>>,
      <<H("submission"), H("searchResultsSection")>> }

InitWalk ==
    /\ tree \in GalleryPages \cup MixedPages
    /\ handlers \in WalkHandlers
    /\ walk = NotWalked
    /\ IdleParse
    /\ IdleText
    /\ IdleGate
    /\ IdleCallers
    /\ IdleCalls

\* rp.processNode(root)
Walk ==
    /\ walk = NotWalked
    /\ walk' = RunProcessor(handlers, tree)
    /\ UNCHANGED <<tree, handlers, varsParse, varsText, varsGate, varsCallers, varsCalls>>

NextWalk == Walk

SpecWalk == InitWalk /\ [][NextWalk]_vars

(***************************************************************************)
(* The identifier strings the parser is run on.                            *)
(***************************************************************************)
RECURSIVE StringsOver(_, _)
StringsOver(alphabet, n) ==
    IF n = 0 THEN {""}
    ELSE LET shorter == StringsOver(alphabet, n - 1)
         IN  shorter \cup {s \o c : s \in shorter, c \in alphabet}

\* id attributes: digit strings up to MaxDigits long and digit strings at and
\* around the ends of the 64-bit range, between prefixes and suffixes
IDInputs ==
    LET long == { "9223372036854775807", "9223372036854775808", "9223372036854775806",
                  "09223372036854775807", "0009223372036854775808",
                  "18446744073709551615", "18446744073709551616",
                  "99999999999999999999", "1000000000000000000", "00000000000000000000" }
        prefixes == {"", "sid-", "sid", "id-", "-", "+", "sid--", "sid-+", "sid-sid-", "x"}
        suffixes == {"", "x", "sid-", "-"}
    IN  {p \o d \o x : p \in prefixes,
                       d \in StringsOver({"0", "4", "9"}, MaxDigits) \cup long,
                       x \in suffixes}

InitParse ==
    /\ idAttr \in IDInputs
    /\ parsedID = NotParsed
    /\ IdleText
    /\ IdleGate
    /\ IdleCallers
    /\ IdleWalk
    /\ IdleCalls

ParseID ==
    /\ parsedID = NotParsed
    /\ parsedID' = parseSubmissionID(idAttr)
    /\ UNCHANGED <<idAttr, varsGate, varsCallers, varsWalk, varsCalls, varsText>>

NextParse == ParseID

SpecParse == InitParse /\ [][NextParse]_vars

(***************************************************************************)
(* The text normalisation applied to a text, and to its own result.        *)
(***************************************************************************)
\* texts of up to MaxText characters: letters, the characters the
\* normalisation replaces, and a newline
InitText ==
    /\ textIn \in StringsOver({"a", " ", NBSP, "\t", "\n"}, MaxText)
    /\ normalized = <<>>
    /\ IdleParse
    /\ IdleGate
    /\ IdleCallers
    /\ IdleWalk
    /\ IdleCalls

\* the four statements of process run on the text, then on what they gave
Normalize ==
    /\ Len(normalized) < 2
    /\ normalized' = Append(normalized,
                            NormalizeText(IF normalized = <<>> THEN textIn ELSE normalized[1]))
    /\ UNCHANGED <<textIn, varsParse, varsGate, varsCallers, varsWalk, varsCalls>>

SpecText == InitText /\ [][Normalize]_vars

(***************************************************************************)
(* The documents the server answers with.  A response body is named by a   *)
(* string; html.Parse gives the tree of a document, and of any other bytes *)
(* a tree holding them as text.                                            *)
(***************************************************************************)
PageNames ==
    { "user", "anon", "noname", "elemname", "twonames", "gallery", "badjson",
      "search", "view", "viewflat", "journal", "journal2", "nodate", "recent" }

Page(name) ==
    LET Script(text) == El("script", <<>>, <<Tx(text)>>)
        Anchor(attrs, kids) == El("a", attrs, kids)
        Tbl(rows) == El("table", <<>>, <<El("tbody", <<>>, rows)>>)
        Td(kids) == El("td", <<>>, kids)
        Tr(kids) == El("tr", <<>>, kids)
        \* the nest of tables a submission page keeps its description in
        DescriptionNest(leaf) ==
            Tbl(<<Tr(<<Td(<<Tbl(<<Tr(<<>>),
                                  Tr(<<Td(<<Tx("junk"),
                                            Tbl(<<Tr(<<>>), Tr(<<leaf>>)>>)>>)>>)>>)>>)>>)>>)
    IN  CASE name = "user" ->
                El("html", <<>>,
                   << Anchor(<<At("id", "my-username"), At("href", "/user/u/")>>, <<Tx("~u")>>),
                      Script("var submission_data = {\"42\":{\"icon_rating\":\"r-mature\","
                             \o "\"title\":\"T\",\"username\":\"U\"}};"),
                      Section("gallery-latest-submissions",
                              << Figure("sid-42", "r-general t-image", <<Img("//example/x.jpg")>>),
                                 Figure("sid-7", "r-adult", <<>>) >>),
                      Anchor(<<At("href", "/journal/4/")>>, <<Tx("News")>>),
                      Anchor(<<At("href", "/journal/4/")>>, <<Tx("Comments (3)")>>) >>)
          [] name = "recent" ->
                El("html", <<>>,
                   << Section("gallery-latest-submissions",
                              <<El("figure", <<At("id", "sid-42")>>, <<Img("//example/x.jpg")>>)>>),
                      Script("var submission_data = {\"42\":{\"icon_rating\":\"r-mature\","
                             \o "\"title\":\"T\",\"username\":\"U\"}};") >>)
          [] name = "anon" ->
                El("html", <<>>,
                   << Div(<<Anchor(<<At("href", "/login")>>, <<Tx("Log in")>>)>>),
                      Section("gallery-gallery", <<>>) >>)
          [] name = "noname" ->
                El("html", <<>>, <<Anchor(<<At("id", "my-username")>>, <<>>)>>)
          [] name = "elemname" ->
                El("html", <<>>,
                   <<Anchor(<<At("id", "my-username")>>, <<El("b", <<>>, <<Tx("~u")>>)>>)>>)
          [] name = "twonames" ->
                El("html", <<>>,
                   << Anchor(<<At("id", "my-username")>>, <<Tx("~u")>>),
                      Div(<<Anchor(<<At("id", "my-username")>>, <<Tx("~v")>>)>>) >>)
          [] name = "gallery" ->
                El("html", <<>>,
                   << Section("gallery-gallery",
                              << Figure("sid-5", "t-image", <<Img("//t.x/5.jpg")>>),
                                 Figure("sid-6", "r-adult t-text", <<Img("//t.x/6.jpg")>>),
                                 Figure("sid-8", "r-general", <<>>) >>),
                      Script("var descriptions = {\"5\":{\"title\":\"G\",\"username\":\"u\"},"
                             \o "\"6\":{\"title\":\"H\",\"username\":\"u\"},"
                             \o "\"8\":{\"icon_rating\":\"r-mature\",\"title\":\"K\"}};") >>)
          [] name = "badjson" ->
                El("html", <<>>,
                   << Script("var descriptions = {\"5\":{\"title\":\"G\",}};"),
                      Section("gallery-gallery",
                              <<Figure("sid-5", "r-general", <<Img("//t.x/5.jpg")>>)>>),
                      Section("gallery-latest-submissions",
                              <<Figure("sid-5", "r-general", <<Img("//t.x/5.jpg")>>)>>),
                      Script("var submission_data = {\"5\":{\"title\":\"G\"}, \"x\":{}}}};") >>)
          [] name = "search" ->
                El("html", <<>>,
                   << Section("gallery-search-results",
                              << Figure("sid-8", "t-image r-adult",
                                        << Img("//t.x/8.jpg"),
                                           El("figcaption", <<>>,
                                              << Anchor(<<At("href", "/view/8/"), At("title", "S")>>,
                                                        <<Tx("S")>>),
                                                 Anchor(<<At("href", "/user/w/"), At("title", "w")>>,
                                                        <<Tx("w")>>) >>) >>) >>) >>)
          [] name = "view" ->
                El("html", <<>>,
                   << El("div", <<At("id", "page-submission")>>,
                         << DescriptionNest(
                                El("td", <<>>,
                                   << Tx(" A  picture "),
                                      Anchor(<<At("href", "//d.x/f.png")>>, <<Tx("Download")>>),
                                      El("td", <<At("class", "alt1 stats-container")>>,
                                         <<Tx("Views:\t4")>>) >>)) >>) >>)
          [] name = "viewflat" ->
                El("html", <<>>,
                   << El("div", <<At("id", "page-submission")>>,
                         <<Anchor(<<At("href", "//d.x/g.png")>>, <<Tx("Download")>>)>>),
                      Anchor(<<At("href", "//d.x/f.png")>>, <<Tx("Download")>>),
                      El("td", <<At("class", "stats-container")>>, <<Tx("Views: 4")>>) >>)
          [] name = "journal" ->
                El("html", <<>>,
                   << El("span", <<At("class", "popup_date")>>, <<Tx("May 1st")>>),
                      El("div", <<At("class", "journal-body")>>, <<Tx(" Hello   world ")>>) >>)
          [] name = "journal2" ->
                El("html", <<>>,
                   <<El("div", <<At("class", "journal-body")>>, <<Tx("Edited")>>)>>)
          [] name = "nodate" ->
                El("html", <<>>,
                   << El("div", <<At("class", "journal-body")>>, <<Tx("Hello")>>),
                      El("span", <<At("class", "popup_date")>>, <<>>) >>)

\* html.Parse(res.Body)
htmlParse(body) ==
    IF body \in PageNames THEN Page(body) ELSE El("html", <<>>, <<Tx(body)>>)

\* the bodies of binary files
FileBodies == {"bytes1", "bytes2"}

(***************************************************************************)
(* Client: requests, and what do and getRaw make of a response.            *)
(***************************************************************************)
newRequest(method, uri, body) ==
    [method |-> method,
     url |-> IF HasPrefix(uri, "https://") THEN uri ELSE "https://www.furaffinity.net" \o uri,
     body |-> body]

do_anyContentType(o) ==
    IF doRawResult(o).err # "nil" THEN [root |-> Nil, err |-> doRawResult(o).err]
    ELSE [root |-> htmlParse(o.body), err |-> "nil"]

\* Client.do: doRaw, the content-type check, html.Parse
do(o) ==
    LET r == doRawResult(o)
    IN  IF r.err # "nil" THEN [root |-> Nil, err |-> r.err]
        ELSE IF ~HasPrefix(o.ctype, "text/html")
        THEN [root |-> Nil, err |-> "response content-type " \o o.ctype \o " not expected"]
        ELSE [root |-> htmlParse(o.body), err |-> "nil"]

\* Client.getRaw: doRaw, then the body read as bytes
getRaw(o) ==
    LET r == doRawResult(o)
    IN  IF r.err # "nil" THEN [bb |-> "", err |-> r.err] ELSE [bb |-> o.body, err |-> "nil"]

(***************************************************************************)
(* The domain operations: the request each sends, the processor it runs on *)
(* the tree, and what it returns from the handlers.                        *)
(***************************************************************************)
Op(name, st, page) == [name |-> name, st |-> st, page |-> page]

\* the User the operations are called on, u := c.NewUser("u")
UserName == "u"

DomainOps ==
    {Op(n, "", 0) : n \in {"GetUsername", "GetRecent", "GetSubmissionDetails", "Journal.Content"}}
    \cup {Op(n, "", p) : n \in {"GetJournals", "Search.GetPage"}, p \in 0..MaxPage}
    \cup {Op("GetGallery", st, p) : st \in {"gallery", "scraps"}, p \in 0..MaxPage}

\* params.Encode() of Search.GetPage for the query "q": the keys sorted
SearchParams(page) ==
    "do_search=Search&mode=extended&order-by=date&order-direction=desc&page=" \o page
    \o "&perpage=72&q=q&range=all&rating-adult=on&rating-general=on&rating-mature=on"
    \o "&type-art=on&type-flash=on&type-music=on&type-photo=on&type-poetry=on&type-story=on"

\* the request an operation builds; i is the record it is called on
OpRequest(op, i) ==
    LET page == Itoa(IF op.page = 0 THEN 1 ELSE op.page)
    IN  CASE op.name = "GetUsername" -> newRequest("GET", "/search", "")
          [] op.name = "GetRecent" -> newRequest("GET", "/user/" \o UserName, "")
          [] op.name = "GetJournals" ->
                newRequest("GET", "/journals/" \o UserName \o "/" \o page \o "/", "")
          [] op.name = "GetGallery" ->
                newRequest("GET", "/" \o op.st \o "/" \o UserName \o "/" \o page \o "/", "")
          [] op.name = "Search.GetPage" ->
                newRequest("POST", "/search/", SearchParams(Itoa(op.page)))
          [] op.name = "GetSubmissionDetails" -> newRequest("GET", "/view/" \o i.ID \o "/", "")
          [] op.name = "Journal.Content" ->
                newRequest("GET", "https://www.furaffinity.net/journal/" \o i.ID \o "/", "")

\* the tagHandlers of the processor an operation constructs
OpHandlers(op) ==
    CASE op.name = "GetUsername" -> <<H("myUsername")>>
      [] op.name = "GetRecent" ->
            <<SectionH("gallery-latest-submissions"), H("journal"), ScriptH("submission_data")>>
      [] op.name = "GetJournals" -> <<H("journal")>>
      [] op.name = "GetGallery" -> <<SectionH("gallery-gallery"), ScriptH("descriptions")>>
      [] op.name = "Search.GetPage" -> <<H("searchResults")>>
      [] op.name = "GetSubmissionDetails" -> <<H("download"), H("description"), H("stats")>>
      [] op.name = "Journal.Content" -> <<H("journalContent"), H("journalDate")>>

attachSubmissionData_none(subs, data) == subs

attachSubmissionData_overwrite(subs, data) ==
    [k \in 1..Len(subs) |->
        [subs[k] EXCEPT !.Rating = ReplaceFirst(MapGet(data, subs[k].ID).Rating, "r-", ""),
                        !.Title = MapGet(data, subs[k].ID).Title,
                        !.User = MapGet(data, subs[k].ID).User]]

attachSubmissionData(subs, data) ==
    [k \in 1..Len(subs) |->
        LET d == MapGet(data, subs[k].ID)
        IN  [subs[k] EXCEPT !.Rating = IF d.Rating # "" THEN ReplaceFirst(d.Rating, "r-", "")
                                       ELSE @,
                            !.Title = d.Title,
                            !.User = d.User]]

attachJournalData(js) == [k \in 1..Len(js) |-> [js[k] EXCEPT !.c = TRUE, !.User = UserName]]

ErrNotLoggedIn == "not logged in"

\* what an operation returns once its processor has run; hs are its handlers
OpFinish(op, hs) ==
    CASE op.name = "GetUsername" ->
            IF hs[1].username = "" THEN [v |-> NoValue, err |-> ErrNotLoggedIn]
            ELSE [v |-> [NoValue EXCEPT !.str = hs[1].username], err |-> "nil"]
      [] op.name = "GetRecent" ->
            [v |-> [NoValue EXCEPT !.subs = attachSubmissionData(hs[1].subs, hs[3].data),
                                   !.journs = attachJournalData(hs[2].js)],
             err |-> "nil"]
      [] op.name = "GetJournals" ->
            [v |-> [NoValue EXCEPT !.journs = attachJournalData(hs[1].js)], err |-> "nil"]
      [] op.name = "GetGallery" ->
            [v |-> [NoValue EXCEPT !.subs = attachSubmissionData(hs[1].subs, hs[2].data)],
             err |-> "nil"]
      [] op.name = "Search.GetPage" ->
            [v |-> [NoValue EXCEPT !.subs = [k \in 1..Len(hs[1].results) |->
                                                [hs[1].results[k] EXCEPT !.c = TRUE]]],
             err |-> "nil"]
      [] op.name = "GetSubmissionDetails" ->
            [v |-> [NoValue EXCEPT !.details = [set |-> TRUE,
                                                DownloadURL |-> "https:" \o hs[1].url,
                                                Description |-> hs[2].text,
                                                Stats |-> hs[3].stats]],
             err |-> "nil"]
      [] op.name = "Journal.Content" ->
            [v |-> [NoValue EXCEPT !.str = hs[2].text \o "\n\n" \o hs[1].text], err |-> "nil"]

(***************************************************************************)
(* The lazy accessors Submission.PreviewImage, SubmissionDetails.Download  *)
(* and Journal.Content, on one record instance.                            *)
(***************************************************************************)
\* the length of the longest prefix of s made of characters of set
SpanLen(s, set) ==
    LET stop == {k \in 1..Len(s) : CharAt(s, k) \notin set}
    IN  IF stop = {} THEN Len(s) ELSE (CHOOSE k \in stop : \A j \in stop : k <= j) - 1

\* previewSizeRegexp, ^https://t.furaffinity.net/(\d+)@(\d+)-(\d+)\.([a-zA-Z]+)$ :
\* FindStringSubmatch.  The two dots of the host are not escaped and match
\* any character but a newline.
previewSizeRegexp(url) ==
    LET letters == "abcdefghijklmnopqrstuvwxyzABCDEFGHIJKLMNOPQRSTUVWXYZ"
        Letters == {CharAt(letters, k) : k \in 1..Len(letters)}
        host == /\ Len(url) >= 26
                /\ SubSeq(url, 1, 9) = "https://t"
                /\ CharAt(url, 10) # "\n"
                /\ SubSeq(url, 11, 21) = "furaffinity"
                /\ CharAt(url, 22) # "\n"
                /\ SubSeq(url, 23, 26) = "net/"
        r1 == SubSeq(url, 27, Len(url))
        n1 == SpanLen(r1, Digits)
        r2 == SubSeq(r1, n1 + 2, Len(r1))
        n2 == SpanLen(r2, Digits)
        r3 == SubSeq(r2, n2 + 2, Len(r2))
        n3 == SpanLen(r3, Digits)
        r4 == SubSeq(r3, n3 + 2, Len(r3))
        ok == /\ host
              /\ n1 >= 1 /\ CharAt(r1, n1 + 1) = "@"
              /\ n2 >= 1 /\ CharAt(r2, n2 + 1) = "-"
              /\ n3 >= 1 /\ CharAt(r3, n3 + 1) = "."
              /\ Len(r4) >= 1 /\ SpanLen(r4, Letters) = Len(r4)
    IN  IF ok THEN [match |-> TRUE, parts |-> <<url, SubSeq(r1, 1, n1), SubSeq(r2, 1, n2),
                                                SubSeq(r3, 1, n3), r4>>]
        ELSE [match |-> FALSE, parts |-> <<>>]

\* the record instances the accessors are called on, their caches empty
Instances ==
    {[kind |-> "Submission", url |-> u, ID |-> "42", cache |-> NoCache] :
        u \in { "https://t.furaffinity.net/42@400-150.jpg",
                "https://t.furaffinity.net/42@800-150.jpg",
                "https://t_furaffinity_net/42@200-150.png",
                "https://example/x.jpg" }}
    \cup {[kind |-> "SubmissionDetails", url |-> "https://d.x/f.png", ID |-> "42",
           cache |-> NoCache],
          [kind |-> "Journal", url |-> "", ID |-> "4", cache |-> NoCache]}

\* the accessor of a record
Accessor(i) ==
    Op(CASE i.kind = "Submission" -> "PreviewImage"
         [] i.kind = "SubmissionDetails" -> "Download"
         [] i.kind = "Journal" -> "Journal.Content", "", 0)

LazyHit_never(i) == FALSE

\* if s.previewImage != nil / sd.download != nil / j.content != nil
LazyHit(i) == i.cache.set

\* a PreviewImage that would fetch the provided URL only
FirstRequest_providedOnly(op, i) ==
    IF op.name \in {"PreviewImage", "Download"}
    THEN [step |-> IF op.name = "PreviewImage" THEN "provided" ELSE "",
          req |-> newRequest("GET", i.url, "")]
    ELSE [step |-> "", req |-> OpRequest(op, i)]

\* the first request of an operation that does not return at once, and the
\* step of PreviewImage it belongs to
FirstRequest(op, i) ==
    LET parts == previewSizeRegexp(i.url)
    IN  IF op.name = "PreviewImage"
        THEN IF parts.match /\ parts.parts[3] # "800"
             THEN [step |-> "large",
                   req |-> newRequest("GET", "https://t.furaffinity.net/" \o parts.parts[2]
                                             \o "@800-" \o parts.parts[4] \o "." \o parts.parts[5],
                                      "")]
             ELSE [step |-> "provided", req |-> newRequest("GET", i.url, "")]
        ELSE IF op.name = "Download" THEN [step |-> "", req |-> newRequest("GET", i.url, "")]
        ELSE [step |-> "", req |-> OpRequest(op, i)]

\* the bodies the server may answer an operation with
BodiesFor(op) == IF op.name \in {"PreviewImage", "Download"} THEN FileBodies ELSE PageNames

\* accessors that would store the empty result of a failed fetch
AfterGetRaw_cacheError(c, i, o) ==
    IF getRaw(o).err = "nil"
    THEN [c |-> [c EXCEPT !.at = "idle"],
          ret |-> [resp |-> o, v |-> [NoValue EXCEPT !.str = getRaw(o).bb], err |-> "nil"],
          write |-> TRUE, val |-> getRaw(o).bb, walk |-> <<Nil, <<>>, NotWalked>>]
    ELSE IF c.step = "large"
    THEN [c |-> [c EXCEPT !.at = "gate", !.step = "provided",
                          !.req = newRequest("GET", i.url, "")],
          ret |-> [Pending EXCEPT !.resp = o], write |-> FALSE, val |-> "",
          walk |-> <<Nil, <<>>, NotWalked>>]
    ELSE [c |-> [c EXCEPT !.at = "idle"],
          ret |-> [resp |-> o, v |-> NoValue, err |-> getRaw(o).err],
          write |-> TRUE, val |-> "", walk |-> <<Nil, <<>>, NotWalked>>]

\* PreviewImage and Download after getRaw has returned for the response o:
\* the caller's new position, what is returned, and whether the cache field
\* is assigned
AfterGetRaw(c, i, o) ==
    LET r == getRaw(o)
    IN  IF r.err = "nil"
        THEN [c |-> [c EXCEPT !.at = "idle"],
              ret |-> [resp |-> o, v |-> [NoValue EXCEPT !.str = r.bb], err |-> "nil"],
              write |-> TRUE, val |-> r.bb, walk |-> <<Nil, <<>>, NotWalked>>]
        ELSE IF c.step = "large"
        THEN [c |-> [c EXCEPT !.at = "gate", !.step = "provided",
                              !.req = newRequest("GET", i.url, "")],
              ret |-> [Pending EXCEPT !.resp = o], write |-> FALSE, val |-> "",
              walk |-> <<Nil, <<>>, NotWalked>>]
        ELSE [c |-> [c EXCEPT !.at = "idle"],
              ret |-> [resp |-> o, v |-> NoValue, err |-> r.err],
              write |-> FALSE, val |-> "", walk |-> <<Nil, <<>>, NotWalked>>]

\* a domain operation after get or post has returned for the response o
AfterDo(c, i, o) ==
    LET idle == [c EXCEPT !.at = "idle"]
        returned(root, hl, w, fin) ==
            [c |-> idle, ret |-> [resp |-> o, v |-> fin.v, err |-> fin.err],
             write |-> c.op.name = "Journal.Content", val |-> fin.v.str,
             walk |-> <<root, hl, w>>]
        processed(root, hl, w) ==
            IF w.panic
            THEN [c |-> idle, ret |-> [resp |-> o, v |-> NoValue, err |-> "panic"],
                  write |-> FALSE, val |-> "", walk |-> <<root, hl, w>>]
            ELSE returned(root, hl, w, OpFinish(c.op, w.hs))
        process(root, hl) == processed(root, hl, RunProcessor(hl, root))
        parsed(d) ==
            IF d.err # "nil"
            THEN [c |-> idle, ret |-> [resp |-> o, v |-> NoValue, err |-> d.err],
                  write |-> FALSE, val |-> "", walk |-> <<Nil, <<>>, NotWalked>>]
            ELSE process(d.root, OpHandlers(c.op))
    IN  parsed(do(o))

\* a goroutine calls an operation: a lazy accessor whose cache field is set
\* returns it at once, any other call builds its request and goes to the gate
CallOp(g, op) ==
    /\ cpc[g].at = "idle"
    /\ IF op.name \in {"PreviewImage", "Download", "Journal.Content"} /\ LazyHit(inst)
       THEN /\ cpc' = [cpc EXCEPT ![g] = [IdleCaller EXCEPT !.op = op, !.began = inst.cache]]
            /\ cret' = [cret EXCEPT ![g] = [resp |-> NoResponse,
                                            v |-> [NoValue EXCEPT !.str = inst.cache.val],
                                            err |-> "nil"]]
       ELSE /\ cpc' = [cpc EXCEPT ![g] = [at |-> "gate", op |-> op,
                                          step |-> FirstRequest(op, inst).step,
                                          req |-> FirstRequest(op, inst).req,
                                          began |-> inst.cache, sent |-> <<>>]]
            /\ cret' = [cret EXCEPT ![g] = Pending]
    /\ tree' = Nil
    /\ handlers' = <<>>
    /\ walk' = NotWalked
    /\ UNCHANGED <<inst, cacheLog, varsGate, varsCallers, varsParse, varsText>>

\* doRaw: the goroutine receives a tick and its request is dispatched
Dispatch(g) ==
    /\ cpc[g].at = "gate"
    /\ GatePass
    /\ cpc' = [cpc EXCEPT ![g].at = "inflight", ![g].sent = Append(@, cpc[g].req)]
    /\ UNCHANGED <<inst, cret, cacheLog, varsCallers, varsParse, varsText, varsWalk>>

\* c.http.Do returns and the operation runs on to its next request or to
\* its end
Return(g) ==
    /\ cpc[g].at = "inflight"
    /\ \E o \in Responses(BodiesFor(cpc[g].op)) :
          \E a \in {IF cpc[g].op.name \in {"PreviewImage", "Download"}
                    THEN AfterGetRaw(cpc[g], inst, o)
                    ELSE AfterDo(cpc[g], inst, o)} :
              /\ cpc' = [cpc EXCEPT ![g] = a.c]
              /\ cret' = [cret EXCEPT ![g] = a.ret]
              /\ inst' = IF a.write THEN [inst EXCEPT !.cache = [set |-> TRUE, val |-> a.val]]
                         ELSE inst
              /\ cacheLog' = IF a.write THEN Append(cacheLog, a.val) ELSE cacheLog
              /\ tree' = a.walk[1]
              /\ handlers' = a.walk[2]
              /\ walk' = a.walk[3]
    /\ UNCHANGED <<varsGate, varsCallers, varsParse, varsText>>

InitCalls ==
    /\ cpc = [g \in Callers |-> IdleCaller]
    /\ cret = [g \in Callers |-> Pending]
    /\ cacheLog = <<>>
    /\ IdleParse
    /\ IdleText
    /\ IdleGate
    /\ IdleCallers
    /\ IdleWalk

(***************************************************************************)
(* Goroutines calling the lazy accessor of one record, concurrently.       *)
(***************************************************************************)
InitLazy == inst \in Instances /\ InitCalls

LazyCall(g) == CallOp(g, Accessor(inst))

NextLazy ==
    \/ TimePasses
    \/ \E g \in Callers : LazyCall(g)
    \/ \E g \in Callers : Dispatch(g)
    \/ \E g \in Callers : Return(g)

SpecLazy == InitLazy /\ [][NextLazy]_vars

(***************************************************************************)
(* One goroutine calling the accessor again and again.                     *)
(***************************************************************************)
\* the one goroutine calls the accessor again
LazyCallSeq == LazyCall(1)

NextLazySeq ==
    \/ TimePasses
    \/ LazyCallSeq
    \/ Dispatch(1)
    \/ Return(1)

SpecLazySeq == InitLazy /\ [][NextLazySeq]_vars

(***************************************************************************)
(* One goroutine calling the domain operations, one after the other.       *)
(***************************************************************************)
\* j, the Journal that Content is called on; GetSubmissionDetails(4)
InitOps ==
    /\ inst = [kind |-> "Journal", url |-> "", ID |-> "4", cache |-> NoCache]
    /\ InitCalls

OpCall == \E op \in DomainOps : CallOp(1, op)

NextOps ==
    \/ TimePasses
    \/ OpCall
    \/ Dispatch(1)
    \/ Return(1)

SpecOps == InitOps /\ [][NextOps]_vars

(***************************************************************************)
(* The processors of GetRecent and GetJournals walking the parts of a      *)
(* profile page: its links, and its script.                                *)
(***************************************************************************)
\* pages of up to MaxItems anchors, at the top or in a wrapper: journal
\* links and other links, with the texts of titles, of comments links and of
\* "Read more..." links, with an element first, and without children
LinkPages ==
    LET hrefs == {"/journal/4/", "/journal/12/", "/journals/4/"}
        kids == { <<Tx("News")>>, <<Tx("Comments (3)")>>, <<Tx("Comments")>>,
                  <<Tx("Read more...")>>, <<Tx("Read more... soon")>>,
                  <<El("b", <<>>, <<Tx("Comments (1)")>>)>>,
                  <<Tx("On "), El("b", <<>>, <<Tx("Read more...")>>)>>,
                  <<>> }
        anchors == {El("a", <<At("href", h)>>, k) : h \in hrefs, k \in kids}
        rows == UNION {[1..n -> anchors] : n \in 0..MaxItems}
    IN  {El("html", <<>>, r) : r \in rows} \cup {El("html", <<>>, <<Div(r)>>) : r \in rows}

\* the objects a script assigns to submission_data: up to MaxItems members,
\* each a key and an object of string fields (pairs of name and value)
ScriptObjects ==
    LET keys == {"123", "42", "x"}
        vals == { << <<"icon_rating", "r-general">>, <<"title", "Foo">>,
                     <<"username", "bar">> >>,
                  << <<"Title", "t">>, <<"views", "4">> >> }
    IN  UNION {[1..n -> keys \X vals] : n \in 0..MaxItems}

\* the page whose script assigns the object, written as JSON text
ScriptPage(obj) ==
    LET quoted(str) == "\"" \o str \o "\""
        RECURSIVE joined(_, _)
        joined(texts, k) ==
            IF k > Len(texts) THEN ""
            ELSE (IF k > 1 THEN "," ELSE "") \o texts[k] \o joined(texts, k + 1)
        object(texts) == "{" \o joined(texts, 1) \o "}"
        fields(val) == object([k \in 1..Len(val) |-> quoted(val[k][1]) \o ":" \o quoted(val[k][2])])
        members == object([k \in 1..Len(obj) |-> quoted(obj[k][1]) \o ":" \o fields(obj[k][2])])
    IN  El("html", <<>>,
           << El("script", <<>>, <<Tx("var submission_data = " \o members \o ";")>>) >>)

\* a submission page: div#page-submission over the nest of tables, of which
\* the first k steps of the description's path exist; second says whether a
\* step for the second tr finds a first tr before it; the Download link and
\* the stats cell are inside the div (beside the nest), outside it, or absent
DescriptionPage(k, second, extras) ==
    LET RECURSIVE below(_)
        \* the children of the node that step d leads to
        below(d) ==
            IF d = Len(DescriptionPath) THEN <<Tx(" A  picture ")>>
            ELSE IF d >= k THEN <<>>
            ELSE LET tag == DescriptionPath[d + 1][1]
                     next == El(tag, <<>>, below(d + 1))
                 IN  IF DescriptionPath[d + 1][2] = 1 /\ second
                     THEN <<El(tag, <<>>, <<Tx("junk")>>), next>>
                     ELSE <<next>>
        links == << El("a", <<At("href", "//d.x/f.png")>>, <<Tx("Download")>>),
                    El("td", <<At("class", "alt1 stats-container")>>, <<Tx("Views:\t4")>>) >>
        div == El("div", <<At("id", "page-submission")>>,
                  below(0) \o (IF extras = "inside" THEN links ELSE <<>>))
    IN  El("html", <<>>, <<div>> \o (IF extras = "outside" THEN links ELSE <<>>))

DescriptionPages ==
    {DescriptionPage(k, second, extras) :
        k \in 0..Len(DescriptionPath), second \in BOOLEAN,
        extras \in {"inside", "outside", "absent"}}

InitParts ==
    /\ tree \in LinkPages \cup {ScriptPage(obj) : obj \in ScriptObjects} \cup DescriptionPages
    /\ handlers \in { <<H("journal")>>,
                       <<ScriptH("submission_data")>>,
                       <<SectionH(RecentSectionID), H("journal"), ScriptH("submission_data")>>,
                       <<H("download"), H("description"), H("stats")>> }
    /\ walk = NotWalked
    /\ IdleParse
    /\ IdleText
    /\ IdleGate
    /\ IdleCallers
    /\ IdleCalls

SpecParts == InitParts /\ [][NextWalk]_vars

(***************************************************************************)
(* What the claims about the subtree processor speak of.                   *)
(***************************************************************************)
RECURSIVE PreOrder(_, _)
RECURSIVE PreOrderFrom(_, _, _)
\* the paths of the nodes of the subtree at n, in document order
PreOrderFrom(n, path, k) ==
    IF k > Len(n.Kids) THEN <<>>
    ELSE PreOrder(n.Kids[k], Append(path, k)) \o PreOrderFrom(n, path, k + 1)

PreOrder(n, path) == <<path>> \o PreOrderFrom(n, path, 1)

RECURSIVE NodeAt(_, _)
NodeAt(n, path) == IF path = <<>> THEN n ELSE NodeAt(n.Kids[Head(path)], Tail(path))

IsPrefix(a, b) == Len(a) <= Len(b) /\ SubSeq(b, 1, Len(a)) = a

IsProperPrefix(a, b) == Len(a) < Len(b) /\ IsPrefix(a, b)

Range(q) == {q[i] : i \in 1..Len(q)}

\* the calls made by the processor the walk was started on
TopLog == SelectSeq(walk.log, LAMBDA e : e.proc = <<>>)

CallsAt(path) == SelectSeq(TopLog, LAMBDA e : e.node = path)

\* a call without the result of process
CallShape(e) == <<e.e, e.h, IF e.e = "matches" THEN e.r ELSE FALSE>>

MatchingAt(path) == {i \in 1..Len(handlers) : Matches(handlers[i], NodeAt(tree, path))}

\* what first-match dispatch does at a node: matches is called on the
\* handlers in list order up to the first that matches, and process on that
\* one alone
FirstMatchCalls(path) ==
    LET ms == MatchingAt(path)
        m == IF ms = {} THEN 0 ELSE CHOOSE i \in ms : \A j \in ms : i <= j
        tried == IF m = 0 THEN Len(handlers) ELSE m
    IN  <<<<"visit", 0, FALSE>>>>
        \o [i \in 1..tried |-> <<"matches", i, i = m>>]
        \o (IF m = 0 THEN <<>> ELSE <<<<"process", m, FALSE>>>>)

VisitedPaths == {e.node : e \in {x \in Range(TopLog) : x.e = "visit"}}

\* C6: at every visited node the handlers are tried in list order, process is
\* invoked on exactly the first handler whose matches returns true, and on no
\* other handler.
C6_FirstMatch ==
    walk # NotWalked =>
        \A p \in VisitedPaths :
            [i \in 1..Len(CallsAt(p)) |-> CallShape(CallsAt(p)[i])] = FirstMatchCalls(p)

\* C6 witness: a node matched by two handlers of the list, the first of which
\* returned true, has been walked.
C6_Witness ==
    /\ walk # NotWalked
    /\ \E p \in VisitedPaths :
          /\ Cardinality(MatchingAt(p)) >= 2
          /\ \E e \in Range(CallsAt(p)) : e.e = "process" /\ e.r

\* the nodes at which the fired handler's process returned false
StoppedAt == {e.node : e \in {x \in Range(TopLog) : x.e = "process" /\ ~x.r}}

VisitSeq ==
    LET vs == SelectSeq(TopLog, LAMBDA e : e.e = "visit")
    IN  [i \in 1..Len(vs) |-> vs[i].node]

\* C7: the walk visits, in pre-order, exactly the nodes that have no proper
\* ancestor at which a handler's process returned false: returning false stops
\* the descent into that node only, returning true or matching nothing does
\* not stop it.
C7_Descent ==
    (walk # NotWalked /\ ~walk.panic) =>
        VisitSeq = SelectSeq(PreOrder(tree, <<>>),
                             LAMBDA p : \A a \in StoppedAt : ~IsProperPrefix(a, p))

\* C7 witness: a walk in which a handler returned false at a node that has
\* children and a following sibling, and a handler returned true at a node
\* that has children.
C7_Witness ==
    /\ walk # NotWalked /\ ~walk.panic
    /\ \E a \in StoppedAt :
          /\ a # <<>>
          /\ HasFirstChild(NodeAt(tree, a))
          /\ a[Len(a)] < Len(NodeAt(tree, SubSeq(a, 1, Len(a) - 1)).Kids)
    /\ \E e \in Range(TopLog) : e.e = "process" /\ e.r /\ HasFirstChild(NodeAt(tree, e.node))

IsFigure(n) == n.Type = "ElementNode" /\ n.Data = "figure"

\* the sections of the page that carry the configured id
SectionPaths(id) ==
    {p \in Range(PreOrder(tree, <<>>)) : checkNodeTagNameAndID(NodeAt(tree, p), "section", id)}

TheSection(id) == CHOOSE p \in SectionPaths(id) : TRUE

\* the figures inside the section, in document order
FiguresIn(sec) ==
    SelectSeq(PreOrder(tree, <<>>),
              LAMBDA p : IsProperPrefix(sec, p) /\ IsFigure(NodeAt(tree, p)))

\* those of them that are not inside another figure of the section
OuterFiguresIn(sec) ==
    SelectSeq(FiguresIn(sec),
              LAMBDA p : \A q \in Range(FiguresIn(sec)) : ~IsProperPrefix(q, p))

IDsOf(paths) ==
    [i \in 1..Len(paths) |-> parseSubmissionID(findAttribute(NodeAt(tree, paths[i]).Attr, "id"))]

SubIDs(subs) == [i \in 1..Len(subs) |-> subs[i].ID]

\* the walk was run by a processor holding only the section handler, on a
\* page with exactly one section of the configured id
PairOnOneSection ==
    /\ walk # NotWalked
    /\ handlers = <<SectionH(RecentSectionID)>>
    /\ Cardinality(SectionPaths(RecentSectionID)) = 1

\* C8 as stated: with exactly one section of the configured id holding N
\* figure nodes, the section and item handlers yield exactly N Submission
\* records, in the document order of the figures.
C8_Original ==
    PairOnOneSection =>
        SubIDs(walk.hs[1].subs) = IDsOf(FiguresIn(TheSection(RecentSectionID)))

\* C8 amended: they yield exactly one Submission record for each figure of
\* the section that is not inside another figure, in document order.
C8_Amended ==
    PairOnOneSection =>
        SubIDs(walk.hs[1].subs) = IDsOf(OuterFiguresIn(TheSection(RecentSectionID)))

\* C8 witness: a section holding two figures, one of them inside a wrapper
\* element, and a figure outside the section, was processed.
C8_Witness ==
    /\ PairOnOneSection
    /\ Len(walk.hs[1].subs) = 2
    /\ walk.hs[1].subs[1].ID # walk.hs[1].subs[2].ID
    /\ \E p \in Range(FiguresIn(TheSection(RecentSectionID))) :
          Len(p) > Len(TheSection(RecentSectionID)) + 1
    /\ \E p \in Range(PreOrder(tree, <<>>)) :
          IsFigure(NodeAt(tree, p)) /\ ~IsPrefix(TheSection(RecentSectionID), p)

(***************************************************************************)
(* What the claims about the operations speak of.                          *)
(***************************************************************************)
\* the latest operation of g has returned
Returned(g) == cpc[g].at = "idle" /\ cret[g].err # "pending"

\* C2: when the HTTP response status is not 200 the operation returns the
\* transport's error for that status and no record, and no handler's matches
\* or process has been invoked.
C2_Non200 ==
    \A g \in Callers :
        (Returned(g) /\ cret[g].resp.err = "nil" /\ cret[g].resp.status # 200) =>
            /\ cret[g].err = "HTTP response " \o Itoa(cret[g].resp.status) \o " not expected"
            /\ cret[g].v = NoValue
            /\ tree = Nil
            /\ walk = NotWalked

\* C2 witness: GetRecent has returned on a 404 response that carries the
\* markup of a profile page.
C2_Witness ==
    /\ Returned(1)
    /\ cpc[1].op.name = "GetRecent"
    /\ cret[1].resp = [err |-> "nil", status |-> 404, ctype |-> "text/html; charset=utf-8",
                       body |-> "user"]

\* C3 as stated: for any interleaving of concurrent first calls to a lazy
\* accessor on one record, at most one successful fetch is performed and the
\* cache field is written at most once.  (Every entry of cacheLog is a
\* successful fetch followed by the assignment of its result.)
C3_AtMostOnce == Len(cacheLog) <= 1

\* C4: with the calls on one record made one after the other, the cache
\* field goes from empty to populated exactly once and never changes again,
\* and every call entered with the field populated returns the cached value
\* without issuing a request.
C4_Once ==
    /\ Len(cacheLog) <= 1
    /\ inst.cache.set <=> Len(cacheLog) = 1
    /\ inst.cache.set => inst.cache.val = cacheLog[1]
    /\ \A g \in Callers :
          cpc[g].began.set =>
              /\ cpc[g].at = "idle"
              /\ cpc[g].sent = <<>>
              /\ cret[g].err = "nil"
              /\ cret[g].v.str = cacheLog[1]

\* C4 witness: PreviewImage, called on a Submission whose preview has been
\* fetched by an earlier call, has returned the cached bytes.
C4_Witness ==
    /\ inst.kind = "Submission"
    /\ inst.cache.set
    /\ cpc[1].at = "idle"
    /\ cpc[1].began = inst.cache
    /\ cret[1].v.str = inst.cache.val

\* get or post returned an error for the response r
RequestFailed(r) == r.err # "nil" \/ r.status # 200 \/ ~HasPrefix(r.ctype, "text/html")

\* the a#my-username anchors of a tree, in document order
UsernameAnchors(root) ==
    SelectSeq(PreOrder(root, <<>>),
              LAMBDA p : checkNodeTagNameAndID(NodeAt(root, p), "a", "my-username"))

IsSidForm(s) == HasPrefix(s, "sid-") /\ Len(s) > 4 /\ AllDigits(SubSeq(s, 5, Len(s)))

SidDigits(s) == SubSeq(s, 5, Len(s))

\* The integer value of a digit string, in canonical decimal notation: the
\* string without its leading zeros.
RECURSIVE DecimalValue(_)
DecimalValue(d) ==
    IF Len(d) > 1 /\ Head(d) = "0" THEN DecimalValue(Tail(d)) ELSE d

\* the value is at most 2^63 - 1
FitsInt64(d) ==
    LET v == DecimalValue(d)
    IN  ~MagLess(MaxInt64, v)

\* an optional sign followed by at least one digit
IsSignedDigits(s) ==
    LET body == IF s # "" /\ Head(s) \in {"+", "-"} THEN Tail(s) ELSE s
    IN  body # "" /\ AllDigits(body)

IsCommentsOrReadMore(t) == HasPrefix(t, "Comments ") \/ t = "Read more..."

\* the anchors of the tree whose href is a journal path and whose text is one
\* of those
CommentLinks ==
    {p \in Range(PreOrder(tree, <<>>)) :
        LET n == NodeAt(tree, p)
        IN  /\ n.Type = "ElementNode" /\ n.Data = "a"
            /\ JournalRegexpID(findAttribute(n.Attr, "href")) # ""
            /\ HasFirstChild(n)
            /\ FirstChild(n).Type = "TextNode"
            /\ IsCommentsOrReadMore(FirstChild(n).Data)}

JournalHandlers == {i \in 1..Len(handlers) : handlers[i].kind = "journal"}

RecordedJournals == UNION {Range(walk.hs[i].js) : i \in JournalHandlers}

\* C11: journalHandler's process is not called on an anchor whose href is a
\* journal path and whose text begins with "Comments " or is exactly
\* "Read more...", and after a walk no recorded Journal has such a Title.
C11_NoCommentLinks ==
    walk # NotWalked =>
        /\ \A p \in CommentLinks :
              \A e \in Range(TopLog) :
                  ~(e.e = "process" /\ e.node = p /\ e.h \in JournalHandlers)
        /\ \A j \in RecordedJournals : ~IsCommentsOrReadMore(j.Title)

\* C11 witness: a walk over a page with a "Read more..." link to a journal
\* next to a link with the journal's title, which was recorded.
C11_Witness ==
    /\ walk # NotWalked
    /\ \E p \in CommentLinks : FirstChild(NodeAt(tree, p)).Data = "Read more..."
    /\ RecordedJournals # {}

(***************************************************************************)
(* What the claim about the text normalisation speaks of.                  *)
(***************************************************************************)
\* C12: the normalisation of journalContentHandler.process and
\* statsHandler.process is idempotent: applied to its own result it returns
\* that result.
C12_Idempotent == Len(normalized) = 2 => normalized[2] = normalized[1]

(***************************************************************************)
(* What the claims about the script of a page speak of.                    *)
(***************************************************************************)
\* the handlers of the walk that are scriptHandlers
ScriptHandlers == {i \in 1..Len(handlers) : handlers[i].kind = "script"}

\* the value a member's object gives a field, "" when it does not name it;
\* encoding/json matches the names of fields without regard to case
FieldOf(val, name) ==
    LET at == {k \in 1..Len(val) : ToLower(val[k][1]) = name}
    IN  IF at = {} THEN "" ELSE val[CHOOSE k \in at : \A j \in at : j <= k][2]

\* the object of the round trip: {"123":{"icon_rating":"r-general",
\* "title":"Foo","username":"bar"}}
RoundTripObject ==
    << <<"123", << <<"icon_rating", "r-general">>, <<"title", "Foo">>,
                   <<"username", "bar">> >> >> >>

\* the last member of the object with the key
LastMember(obj, key) ==
    obj[CHOOSE k \in 1..Len(obj) : obj[k][1] = key /\ \A j \in (k + 1)..Len(obj) : obj[j][1] # key]

\* the tree is a page that holds a script and nothing else
IsScriptPage == Len(tree.Kids) = 1 /\ tree.Kids[1].Data = "script"

\* C13 as stated: after the walk the handler's mapping for the round-trip
\* script is exactly key 123 with rating general, title Foo, username bar,
\* and every member of any embedded object is in the mapping under its key.
C13_Original ==
    (walk # NotWalked /\ IsScriptPage) =>
        \A i \in ScriptHandlers : \A obj \in ScriptObjects :
            tree = ScriptPage(obj) =>
                /\ obj = RoundTripObject =>
                      /\ DOMAIN walk.hs[i].data = {"123"}
                      /\ walk.hs[i].data["123"] = [Rating |-> "general", Title |-> "Foo", User |-> "bar"]
                /\ \A k \in 1..Len(obj) : obj[k][1] \in DOMAIN walk.hs[i].data

\* C13 amended: the mapping for the round-trip script is exactly key 123
\* with the rating token r-general as the script has it, title Foo and
\* username bar; in general the mapping's keys are the members' keys that
\* are integers, each mapped to the icon_rating, title and username of the
\* last member with that key.
C13_Amended ==
    (walk # NotWalked /\ IsScriptPage) =>
        \A i \in ScriptHandlers : \A obj \in ScriptObjects :
            tree = ScriptPage(obj) =>
                /\ obj = RoundTripObject =>
                      /\ DOMAIN walk.hs[i].data = {"123"}
                      /\ walk.hs[i].data["123"] =
                            [Rating |-> "r-general", Title |-> "Foo", User |-> "bar"]
                /\ DOMAIN walk.hs[i].data = {obj[k][1] : k \in {j \in 1..Len(obj) : AllDigits(obj[j][1])}}
                /\ \A key \in DOMAIN walk.hs[i].data :
                      walk.hs[i].data[key] =
                          [Rating |-> FieldOf(LastMember(obj, key)[2], "icon_rating"),
                           Title |-> FieldOf(LastMember(obj, key)[2], "title"),
                           User |-> FieldOf(LastMember(obj, key)[2], "username")]

\* C13 witness: the processor of GetRecent has walked the page whose script
\* is the round-trip script, and its scriptHandler has processed the script.
C13_Witness ==
    /\ walk # NotWalked
    /\ tree = ScriptPage(RoundTripObject)
    /\ \E e \in Range(TopLog) : e.e = "process" /\ e.h \in ScriptHandlers

(***************************************************************************)
(* What the claims about the submissions of a page speak of.               *)
(***************************************************************************)
\* the operation goroutine g called has returned from a walk of the tree of
\* a successful fetch
Walked(g, name) ==
    /\ Returned(g)
    /\ cpc[g].op.name = name
    /\ ~RequestFailed(cret[g].resp)

\* C14: GetRecent on the page with one figure sid-42 in the section
\* gallery-latest-submissions and the script entry 42 returns exactly one
\* Submission: ID 42, PreviewURL https://example/x.jpg, Rating mature,
\* Title T, User U; in general it returns the figures of the section in
\* order, each with the Title and User of the script entry under its ID.
C14_Recent ==
    \A g \in Callers :
        Walked(g, "GetRecent") =>
            /\ cret[g].err = "nil"
            /\ cret[g].resp.body = "recent" =>
                  cret[g].v.subs = << [c |-> TRUE, ID |-> "42",
                                       PreviewURL |-> "https://example/x.jpg",
                                       Rating |-> "mature", Title |-> "T", User |-> "U"] >>
            /\ Len(cret[g].v.subs) = Len(walk.hs[1].subs)
            /\ \A k \in 1..Len(walk.hs[1].subs) :
                  /\ cret[g].v.subs[k].ID = walk.hs[1].subs[k].ID
                  /\ cret[g].v.subs[k].PreviewURL = walk.hs[1].subs[k].PreviewURL
                  /\ walk.hs[1].subs[k].ID \in DOMAIN walk.hs[3].data =>
                        /\ cret[g].v.subs[k].Title = walk.hs[3].data[walk.hs[1].subs[k].ID].Title
                        /\ cret[g].v.subs[k].User = walk.hs[3].data[walk.hs[1].subs[k].ID].User

\* C14 witness: GetRecent has returned from that page after a successful
\* fetch.
C14_Witness ==
    /\ Walked(1, "GetRecent")
    /\ cret[1].resp.body = "recent"
    /\ Len(cret[1].v.subs) = 1

\* the script nodes the operation's scriptHandler has processed, in order
ProcessedScripts ==
    SelectSeq(TopLog, LAMBDA e : e.e = "process" /\ e.h \in ScriptHandlers)

\* the text the handler's regexp captures from the script node at the path
CapturedText(p, i) == dataRegexp(handlers[i].name, FirstChild(NodeAt(tree, p)).Data).group

\* the text is no JSON value
IsInvalidJSON(raw) ==
    \/ ~scanValue(raw).ok
    \/ TrimLeft(scanValue(raw).rest, JSONSpace) # ""

\* C15: when the text captured from the script node is not valid JSON, the
\* scriptHandler holds an empty mapping and the operation, GetRecent or
\* GetGallery, returns with no error every Submission found in the markup,
\* its Title and User blank.
C15_BadJSON ==
    \A g \in Callers : \A name \in {"GetRecent", "GetGallery"} : \A i \in ScriptHandlers :
        ( /\ Walked(g, name)
          /\ ProcessedScripts # <<>>
          /\ IsInvalidJSON(CapturedText(ProcessedScripts[Len(ProcessedScripts)].node, i)) ) =>
            /\ walk.hs[i].data = NoData
            /\ ~walk.panic
            /\ cret[g].err = "nil"
            /\ cret[g].v.subs = walk.hs[1].subs
            /\ \A k \in 1..Len(cret[g].v.subs) :
                  cret[g].v.subs[k].Title = "" /\ cret[g].v.subs[k].User = ""

\* C15 witness: GetGallery has returned the one figure of a page whose
\* script holds a trailing comma.
C15_Witness ==
    /\ Walked(1, "GetGallery")
    /\ cret[1].resp.body = "badjson"
    /\ ProcessedScripts # <<>>
    /\ IsInvalidJSON(CapturedText(ProcessedScripts[1].node, 2))
    /\ Len(cret[1].v.subs) = 1

\* the rating a token r-<rating> stands for
RatingOfToken(t) == IF HasPrefix(t, "r-") THEN SubSeq(t, 3, Len(t)) ELSE t

\* the script entry the merge reads for a record, the empty entry when the
\* mapping has none under the record's ID
EntryFor(sub, i) ==
    IF sub.ID \in DOMAIN walk.hs[i].data THEN walk.hs[i].data[sub.ID]
    ELSE [Rating |-> "", Title |-> "", User |-> ""]

C17_ClosedRating ==
    \A g \in Callers : \A name \in {"GetRecent", "GetGallery", "Search.GetPage"} :
        Walked(g, name) =>
            \A k \in 1..Len(cret[g].v.subs) :
                cret[g].v.subs[k].Rating \in {"general", "mature", "adult"}

(***************************************************************************)
(* What the claims about the requests of the operations speak of.          *)
(***************************************************************************)
\* C18: a call of GetJournals, GetGallery or Search.GetPage with page 0
\* issues the request that the call with page 1 issues.
C18_PageZero ==
    \A g \in Callers :
        ( /\ cpc[g].op.name \in {"GetJournals", "GetGallery", "Search.GetPage"}
          /\ cpc[g].op.page = 0
          /\ cpc[g].sent # <<>> ) =>
            cpc[g].sent[1] = OpRequest([cpc[g].op EXCEPT !.page = 1], inst)

\* C19: no domain operation panics on the tree of a successful fetch: each
\* returns a result, possibly partly filled, and a nil error.
C19_NoPanic ==
    \A g \in Callers : \A op \in DomainOps :
        Walked(g, op.name) => (~walk.panic /\ cret[g].err # "panic")

\* C20: a domain operation whose fetch is answered 200 with a Content-Type
\* that does not start with text/html returns the content-type error, which
\* is not the error of a status other than 200, and the body is not parsed
\* into a tree; answered 200 with a Content-Type that starts with text/html,
\* the body is parsed and the tree is handed to the operation's processor.
C20_ContentType ==
    \A g \in Callers :
        (Returned(g) /\ cret[g].resp.err = "nil" /\ cret[g].resp.status = 200) =>
            IF HasPrefix(cret[g].resp.ctype, "text/html")
            THEN /\ tree = htmlParse(cret[g].resp.body)
                 /\ walk # NotWalked
                 /\ ~HasPrefix(cret[g].err, "response content-type")
            ELSE /\ cret[g].err = "response content-type " \o cret[g].resp.ctype
                                  \o " not expected"
                 /\ ~HasPrefix(cret[g].err, "HTTP response")
                 /\ cret[g].v = NoValue
                 /\ tree = Nil
                 /\ walk = NotWalked

\* C20 witness: GetRecent has returned on a 200 response that carries the
\* markup of a profile page under the Content-Type image/jpeg.
C20_Witness ==
    /\ Returned(1)
    /\ cpc[1].op.name = "GetRecent"
    /\ cret[1].resp = [err |-> "nil", status |-> 200, ctype |-> "image/jpeg", body |-> "user"]

(***************************************************************************)
(* C21: the transport is one-shot.                                         *)
(***************************************************************************)
\* a step in which the gate lets a request through: the buffered tick is taken
GateTaken == tickPending /\ ~tickPending'

\* a step in which goroutine g's call of doRaw returns
DoRawReturns(g) == gpc[g] = "inflight" /\ gpc'[g] = "idle"

\* C21: each invocation of doRaw waits on the gate once and dispatches at most
\* one HTTP request: a tick is taken only by exactly one goroutine going from
\* the gate to its dispatch, a goroutine whose request is dispatched can only
\* return from doRaw (it never goes back to the gate or dispatches again), and
\* when it returns, with a connection error or a non-200 status included, the
\* gate is left alone and the result is the classified outcome of that one
\* dispatch.
C21_OneShot ==
    [][\A g \in Callers :
        /\ gpc[g] = "inflight" => gpc'[g] \in {"inflight", "idle"}
        /\ gpc[g] = "gate" /\ gpc'[g] # "gate" => gpc'[g] = "inflight" /\ GateTaken
        /\ DoRawReturns(g) =>
              /\ UNCHANGED varsGate
              /\ \E o \in Responses({""}) : gres'[g] = doRawResult(o)
        /\ GateTaken =>
              \E h \in Callers :
                  /\ gpc[h] = "gate" /\ gpc'[h] = "inflight"
                  /\ \A k \in Callers \ {h} : gpc'[k] = gpc[k]]_vars

C21_Witness ==
    \E g \in Callers :
        /\ gpc[g] = "idle"
        /\ gres[g].err = "HTTP response 404 not expected"
        /\ \E h \in Callers \ {g} : gres[h].err = "connection"

(***************************************************************************)
(* C22: what the text normalisation leaves in its output.                  *)
(***************************************************************************)
\* the text is one getText can return: getText trims its result
IsGetTextResult(s) == Trim(s, SpaceCutset) = s

\* C22: for every input, the output of journalContentHandler.process /
\* statsHandler.process contains no tab, no non-breaking space, no two
\* consecutive spaces, and no leading or trailing whitespace or newline.
C22_Clean ==
    (Len(normalized) >= 1 /\ IsGetTextResult(textIn)) =>
        /\ ~Contains(normalized[1], "\t")
        /\ ~Contains(normalized[1], NBSP)
        /\ ~Contains(normalized[1], "  ")
        /\ Trim(normalized[1], SpaceCutset) = normalized[1]

(***************************************************************************)
(* C23: descriptionHandler on complete and incomplete paths.               *)
(***************************************************************************)
DetailsHandlers == <<H("download"), H("description"), H("stats")>>

\* every step of the path exists in the page built with these parameters
PathComplete(k, second) == k = Len(DescriptionPath) /\ second

\* the walk of GetSubmissionDetails' processor over the page has been made
DetailsWalked(k, second, extras) ==
    /\ walk # NotWalked
    /\ handlers = DetailsHandlers
    /\ tree = DescriptionPage(k, second, extras)

\* C23: descriptionHandler.process follows the fixed path below
\* div#page-submission; if any step has no matching child the handler's text
\* stays empty and nothing panics; text is recorded only when every step is
\* present, and then is the text of the final td (its text node, trimmed).
C23_Description ==
    \A k \in 0..Len(DescriptionPath), second \in BOOLEAN,
       extras \in {"inside", "outside", "absent"} :
        DetailsWalked(k, second, extras) =>
            /\ ~walk.panic
            /\ walk.hs[2].text = IF PathComplete(k, second) THEN "A  picture" ELSE ""

C23_Witness ==
    /\ DetailsWalked(7, TRUE, "outside")
    /\ ~walk.panic
    /\ walk.hs[2].text = ""
    /\ walk.hs[1].url = "//d.x/f.png"

(***************************************************************************)
(* C24: the description pass and the download and stats passes.            *)
(***************************************************************************)
\* what the same processor extracts from the page that differs only in having
\* every step of the description's path
OnCompletePage(extras) ==
    RunProcessor(DetailsHandlers, DescriptionPage(Len(DescriptionPath), TRUE, extras)).hs

\* C24: in GetSubmissionDetails (handlers download, description, stats) a miss
\* in the description's path aborts only the description: the extracted
\* download URL and stats are the same whether or not the path under
\* div#page-submission is complete.
C24_NoInterference ==
    \A k \in 0..Len(DescriptionPath), second \in BOOLEAN,
       extras \in {"inside", "outside", "absent"} :
        DetailsWalked(k, second, extras) =>
            /\ walk.hs[1].url = OnCompletePage(extras)[1].url
            /\ walk.hs[3].stats = OnCompletePage(extras)[3].stats

(***************************************************************************)
(* C25: the field a structural miss leaves.                                *)
(***************************************************************************)
\* the anchors of the tree whose first child is the text Download
DownloadAnchors(root) ==
    SelectSeq(PreOrder(root, <<>>),
              LAMBDA p : /\ NodeAt(root, p).Type = "ElementNode"
                         /\ NodeAt(root, p).Data = "a"
                         /\ HasFirstChild(NodeAt(root, p))
                         /\ FirstChild(NodeAt(root, p)) = Tx("Download"))

\* the ids of the figures of the tree that have an img below them, and of
\* those that have none
FigureIDs(root, withImg) ==
    { parseSubmissionID(findAttribute(NodeAt(root, p).Attr, "id")) :
        p \in { f \in Range(PreOrder(root, <<>>)) :
                  /\ IsFigure(NodeAt(root, f))
                  /\ withImg = (\E q \in Range(PreOrder(root, <<>>)) :
                                   /\ IsProperPrefix(f, q)
                                   /\ NodeAt(root, q).Type = "ElementNode"
                                   /\ NodeAt(root, q).Data = "img") } }

\* C25: a structural miss yields an empty field: when the fetched page has no
\* anchor whose first child is the text Download, GetSubmissionDetails returns
\* a SubmissionDetails whose DownloadURL is empty; likewise a figure with no
\* img yields a Submission whose PreviewURL is empty.
C25_EmptyField ==
    \A g \in Callers :
        /\ (Walked(g, "GetSubmissionDetails")
              /\ DownloadAnchors(htmlParse(cret[g].resp.body)) = <<>>) =>
                /\ cret[g].err = "nil"
                /\ cret[g].v.details.DownloadURL = ""
        /\ \A name \in {"GetRecent", "GetGallery"} :
              Walked(g, name) =>
                \A k \in 1..Len(cret[g].v.subs) :
                    (cret[g].v.subs[k].ID \in
                        FigureIDs(htmlParse(cret[g].resp.body), FALSE)
                            \ FigureIDs(htmlParse(cret[g].resp.body), TRUE)) =>
                        cret[g].v.subs[k].PreviewURL = ""

(***************************************************************************)
(* C26: no caller is starved at the gate.                                  *)
(***************************************************************************)
\* C26: for concurrent callers on a Client that has not been closed, under
\* fair scheduling each caller waiting at the gate eventually receives a
\* tick, dispatches its request and returns a result or an error.
C26_NoStarvation ==
    \A g \in Callers :
        (gpc[g] = "gate") ~> (closed \/ (gpc[g] = "idle" /\ gres[g].res # "none"))

\* every caller waits at the gate of an open Client at once
C26_Witness ==
    /\ ~closed
    /\ ~tickPending
    /\ \A g \in Callers : gpc[g] = "gate"

(***************************************************************************)
(* C27: the gate after Close.                                              *)
(***************************************************************************)
\* C27: after Close the gate delivers no further ticks and is never closed:
\* the Client stays closed, no tick is added to the channel (the one tick a
\* closed gate may still hold was buffered before Close), a tick that is taken
\* lets exactly one request through, and once the channel is empty no request
\* waiting at the gate dispatches or returns: it stays at the gate, with no
\* result and no error, in every later step.
C27_AfterClose ==
    [][closed =>
          /\ closed'
          /\ tickPending' => tickPending
          /\ ~tickPending =>
                \A g \in Callers :
                    gpc[g] = "gate" => gpc'[g] = "gate" /\ gres'[g] = gres[g]
          /\ \A g \in Callers :
                (gpc[g] = "gate" /\ gpc'[g] # "gate") =>
                    /\ tickPending /\ ~tickPending'
                    /\ \A h \in Callers \ {g} : gpc'[h] = gpc[h]]_vars

\* a request issued after Close is blocked at the gate of the stopped ticker,
\* after another request took the tick that was buffered before Close
C27_Witness ==
    /\ closed
    /\ ~tickPending
    /\ \E g \in Callers : gpc[g] = "gate"
    /\ \E h \in Callers : gpc[h] = "inflight"

(***************************************************************************)
(* C28: the gate holds at most one pending tick.                           *)
(***************************************************************************)
\* a step in which the ticker fires
TickFires == phase' = 0 /\ phase # phase' /\ ~closed

\* a step in which goroutine g's request passes the gate
Passes(g) == gpc[g] = "gate" /\ gpc'[g] = "inflight"

\* C28: the channel holds one tick or none; a tick appears in it only when the
\* ticker fires, and one that fires while a tick is pending is dropped (the
\* channel still holds one and no request moves); a request passes the gate
\* only by taking the pending tick, alone, leaving none, so that no tick is
\* pending when the last dispatch is later than the last firing: the requests
\* that pass in any period are at most one plus the ticks fired in it.
C28_OneTick ==
    [][/\ tickPending \in BOOLEAN
       /\ sinceDispatch < phase => ~tickPending
       /\ (~tickPending /\ tickPending') => TickFires
       /\ (tickPending /\ TickFires) => (tickPending' /\ gpc' = gpc)
       /\ \A g \in Callers :
             Passes(g) =>
                 /\ tickPending /\ ~tickPending'
                 /\ ~TickFires
                 /\ \A h \in Callers \ {g} : ~Passes(h)]_vars

\* after the Client sat idle for a full period or more, one request has just
\* passed the gate and the next waits for a newly fired tick
C28_Witness ==
    /\ ~tickPending
    /\ sinceDispatch = 0
    /\ lastGap = RateLimit
    /\ \E g \in Callers : gpc[g] = "inflight"
    /\ \E h \in Callers : gpc[h] = "gate"

(***************************************************************************)
(* C29: a failed lazy fetch.                                               *)
(***************************************************************************)
\* the error values an accessor returns (not a pending call, not a panic)
IsError(err) == err \notin {"nil", "pending", "panic"}

\* C29: a failed lazy fetch leaves the record unchanged: when PreviewImage,
\* Download or Content has returned an error the instance's cache field is
\* still empty and nothing was assigned to it, and the next call on that
\* instance goes to the gate with the accessor's first request, to fetch
\* again, instead of returning a cached value or a cached error.
C29_FailedFetch ==
    [][/\ (cpc'[1].at = "idle" /\ IsError(cret'[1].err)) =>
              /\ inst' = inst
              /\ ~inst'.cache.set
              /\ cacheLog' = <<>>
       /\ (cpc[1].at = "idle" /\ IsError(cret[1].err) /\ cpc'[1] # cpc[1]) =>
              /\ cpc'[1].at = "gate"
              /\ cpc'[1].sent = <<>>
              /\ cpc'[1].req = FirstRequest(Accessor(inst), inst).req
              /\ cret'[1] = Pending]_vars

\* PreviewImage has returned the error of its second fetch, the large-size
\* fetch having failed before it, and the cache field is empty
C29_Witness ==
    /\ inst.kind = "Submission"
    /\ cpc[1].at = "idle"
    /\ IsError(cret[1].err)
    /\ Len(cpc[1].sent) = 2
    /\ ~inst.cache.set

(***************************************************************************)
(* C30: the requests of PreviewImage.                                      *)
(***************************************************************************)
\* getRaw returns an error for the response
RawFailed(r) == r.err # "nil" \/ r.status # 200

\* PreviewURL matches the preview-size pattern with a size other than 800
WantsLarge(url) == previewSizeRegexp(url).match /\ previewSizeRegexp(url).parts[3] # "800"

\* the large-size URL for a PreviewURL that matches the pattern
LargeOf(url) ==
    "https://t.furaffinity.net/" \o previewSizeRegexp(url).parts[2] \o "@800-"
    \o previewSizeRegexp(url).parts[4] \o "." \o previewSizeRegexp(url).parts[5]

GetOf(url) == [method |-> "GET", url |-> url, body |-> ""]

\* C30: PreviewImage with an empty cache: a PreviewURL that matches the
\* preview-size pattern with a size other than the large one has the
\* large-size URL fetched first and PreviewURL fetched after it only if that
\* fetch fails (two gated requests in one call); a PreviewURL that is already
\* large or does not match has PreviewURL fetched only.  The call returns an
\* error only when the fetch of PreviewURL itself fails, and it caches
\* exactly the bytes it returns.
C30_Preview ==
    [][inst.kind = "Submission" =>
        /\ (cpc[1].at = "idle" /\ cpc'[1].at = "gate") =>
              /\ ~inst.cache.set
              /\ cpc'[1].sent = <<>>
              /\ cpc'[1].req = GetOf(IF WantsLarge(inst.url) THEN LargeOf(inst.url)
                                     ELSE inst.url)
        /\ (cpc[1].at = "gate" /\ cpc'[1].at = "inflight") =>
              /\ cpc'[1].sent = Append(cpc[1].sent, cpc[1].req)
              /\ Len(cpc'[1].sent) <= IF WantsLarge(inst.url) THEN 2 ELSE 1
        /\ (cpc[1].at = "inflight" /\ cpc'[1].at # "inflight") =>
              IF WantsLarge(inst.url) /\ Len(cpc[1].sent) = 1 /\ RawFailed(cret'[1].resp)
              THEN /\ cpc'[1].at = "gate"
                   /\ cpc'[1].req = GetOf(inst.url)
                   /\ cpc'[1].sent = cpc[1].sent
                   /\ cret'[1].err = "pending"
                   /\ inst' = inst
              ELSE /\ cpc'[1].at = "idle"
                   /\ IF RawFailed(cret'[1].resp)
                      THEN /\ IsError(cret'[1].err)
                           /\ cpc[1].sent[Len(cpc[1].sent)] = GetOf(inst.url)
                           /\ inst' = inst
                           /\ cacheLog' = cacheLog
                      ELSE /\ cret'[1].err = "nil"
                           /\ cret'[1].v.str = cret'[1].resp.body
                           /\ inst'.cache = [set |-> TRUE, val |-> cret'[1].v.str]
                           /\ cacheLog' = <<cret'[1].v.str>>]_vars

\* PreviewImage has returned the bytes of PreviewURL, fetched after the fetch
\* of the large-size URL failed, and has cached them
C30_Witness ==
    /\ inst.kind = "Submission"
    /\ WantsLarge(inst.url)
    /\ cpc[1].at = "idle"
    /\ cpc[1].sent = <<GetOf(LargeOf(inst.url)), GetOf(inst.url)>>
    /\ cret[1].err = "nil"
    /\ inst.cache = [set |-> TRUE, val |-> cret[1].v.str]
    /\ cret[1].v.str \in FileBodies

=============================================================================
